---- MODULE Spec2Model ----
(***************************************************************************)
(* ShadowWarp main process, memory-buffer architecture                     *)
(* (src/src/main/index.ts, second module, lines 610-1193): the recording   *)
(* supervisor (startRecording / stopRecording / exit handler / kill        *)
(* timer), the rolling in-memory buffer fed by the encoder's stdout, the   *)
(* replay extractor (saveReplay) and the save-config handler, together     *)
(* with the renderer's copy of the configuration (src/src/renderer/App.tsx).*)
(*                                                                         *)
(* Units.  Time is counted in seconds (the code uses milliseconds, every   *)
(* delay and window in it is a whole number of seconds).  Sizes are        *)
(* counted in blocks of 256 bytes, so that the 2.5 GiB safety limit fits   *)
(* the checker's integers: 1024 bytes = 4 blocks, 2.5 GiB = 10485760.      *)
(***************************************************************************)
EXTENDS Integers, Sequences, FiniteSets, TLC

\* ---------------------------------------------------------------- bounds
MaxProcs  == 2      \* encoder processes spawned in one behaviour
MaxTime   == 60     \* the clock stops advancing here
MaxFineTime == 23   \* ... and here where it advances in steps of seconds
MaxChunks == 4      \* appends are accepted while the buffer is shorter
MaxJobs   == 2      \* extractions that take the lock in one behaviour
MaxSnapshot == 2    \* chunks in the buffer while extractions are followed
MaxSegments == 3    \* segment files in the buffer directory
MaxDiskSegments == 7   \* ... and with segments of SEGMENT_DURATION seconds
MaxDiskTime == 20   \* the clock stops here where segments of 5 s are followed
MaxSweepTime == 30   \* ... and here where segments age past the sweep limit

\* ------------------------------------------------------ program constants
KillDelay    == 3          \* setTimeout(..., 3000) in stopRecording
RestartDelay == 3          \* setTimeout(() => startRecording(), 3000)
Margin       == 15         \* (bufferSecs + 15) * 1000
DefaultSecs  == 300        \* parseInt(config.bufferTime) || 300
MinBytes     == 4          \* totalBytes < 1024, in 256-byte blocks
HardLimit    == 10485760   \* 2.5 * 1024 * 1024 * 1024, in 256-byte blocks
SegmentTime  == 30         \* '-segment_time', '30' (segment architecture)
SweepPeriod  == 60         \* setInterval(cleanOldSegments, 60000)
SweepSlack   == 30         \* parseInt(config.bufferTime) * 1000 + 30000
SegmentDuration == 5       \* const SEGMENT_DURATION = 5
SweepInterval == 15        \* setInterval(cleanOldSegments, 15000)

\* ------------------------------------------------------------ input sets
TickSteps    == {3, 20}          \* amounts by which the clock advances
ChunkSizes   == {1, 5242880}     \* 256 bytes and 1.25 GiB, in blocks
AudioChoices == {"Default", "None"}
AudioKeys    == {"audioDevice", "systemAudioDevice"}
SpawnResults == {"ok", "error", "throw"}
Pids         == 1..MaxProcs
NoProc       == 0

VARIABLES
    isRecording,      \* let isRecording
    recordProcess,    \* let recordProcess: pid of the handle, NoProc for null
    useSystemAudio,   \* let useSystemAudio
    videoBuffer,      \* let videoBuffer: sequence of [time, len, src]
    totalBytes,       \* let totalBytes
    config,           \* let config (the fields the supervisor reads)
    disk,             \* contents of config.json
    isSavingReplay,   \* let isSavingReplay
    procs,            \* every encoder process: status, stdin, last signal
    pendingStarts,    \* fetchDevices() promises not yet resolved
    timers,           \* pending setTimeout callbacks, in firing order
    jobs,             \* extractions between taking the lock and their end
    nextJob,          \* number of extractions that took the lock, plus one
    files,            \* files in tempDir (temporary dumps, by job id)
    artifacts,        \* final .mp4 files written: [job, size]
    rendererConfig,   \* App.tsx: const [config, setConfig]
    now,              \* Date.now(), in seconds
    sent,             \* what the last handler sent, signalled and armed, in order
    last              \* the last handler that ran and the path it took

progVars == <<isRecording, recordProcess, useSystemAudio, videoBuffer,
              totalBytes, config, disk, isSavingReplay, procs,
              pendingStarts, timers, jobs, nextJob, files, artifacts>>

vars == <<isRecording, recordProcess, useSystemAudio, videoBuffer,
          totalBytes, config, disk, isSavingReplay, procs, pendingStarts,
          timers, jobs, nextJob, files, artifacts, rendererConfig, now,
          sent, last>>

\* ---------------------------------------------------------------- helpers

\* mainWindow && !mainWindow.isDestroyed(): the window is created before any
\* handler can run and its close is prevented until the application quits.
mainWindowUsable == TRUE

\* The handler that ran last and the path it took through its code.
Ran(op, path) == [op |-> op, path |-> path]

\* obj.key, "undefined" when the key is absent.
Get(obj, key) == IF key \in DOMAIN obj THEN obj[key] ELSE "undefined"

\* Object.assign(target, source)
ObjectAssign(target, source) ==
    [k \in DOMAIN target |-> IF k \in DOMAIN source THEN source[k] ELSE target[k]]

\* { ...config, [key]: value }
Spread(obj, key, value) ==
    [k \in DOMAIN obj \cup {key} |-> IF k = key THEN value ELSE obj[k]]

\* parseInt(config.bufferTime) || 300
BufferSecs(cfg) == IF cfg.bufferTime = 0 THEN DefaultSecs ELSE cfg.bufferTime

Alive == {p \in Pids : procs[p].status = "alive"}
Spawned == {p \in Pids : procs[p].status # "none"}

\* Faulty variant of SaveConfigToDisk: the file is not rewritten.
SaveConfigToDisk_Skipped(cfg) == disk

\* saveConfigToDisk(), lines 671-673: the contents of config.json after
\* fs.writeFileSync(configPath, JSON.stringify(config, null, 2)), read back as
\* at lines 664-665.  Every field is a string or a boolean, which JSON
\* serialises and parses back to the same value.
SaveConfigToDisk(cfg) == cfg

\* ---------------------------------------------------------- rolling buffer

\* while (videoBuffer.length > 2 && (videoBuffer[0].time < cutoff ||
\*        totalBytes > hardLimit)) { shift; totalBytes -= removed.length }
\* Faulty variant of Evict: chunks are dropped for the byte cap only.
RECURSIVE Evict_CapOnly(_, _, _)
Evict_CapOnly(buf, total, cutoff) ==
    IF Len(buf) > 2 /\ total > HardLimit
    THEN Evict_CapOnly(Tail(buf), total - buf[1].len, cutoff)
    ELSE [buf |-> buf, total |-> total]

\* Faulty variant of Evict: the buffer may be emptied down to one chunk.
RECURSIVE Evict_BelowTwo(_, _, _)
Evict_BelowTwo(buf, total, cutoff) ==
    IF Len(buf) > 1 /\ (buf[1].time < cutoff \/ total > HardLimit)
    THEN Evict_BelowTwo(Tail(buf), total - buf[1].len, cutoff)
    ELSE [buf |-> buf, total |-> total]

\* Faulty variant of Evict: no chunk count is kept back.
RECURSIVE Evict_NoFloor(_, _, _)
Evict_NoFloor(buf, total, cutoff) ==
    IF Len(buf) > 0 /\ (buf[1].time < cutoff \/ total > HardLimit)
    THEN Evict_NoFloor(Tail(buf), total - buf[1].len, cutoff)
    ELSE [buf |-> buf, total |-> total]

\* Faulty variant of Evict: the byte total keeps the dropped chunks.
RECURSIVE Evict_KeepsTotal(_, _, _)
Evict_KeepsTotal(buf, total, cutoff) ==
    IF Len(buf) > 2 /\ (buf[1].time < cutoff \/ total > HardLimit)
    THEN Evict_KeepsTotal(Tail(buf), total, cutoff)
    ELSE [buf |-> buf, total |-> total]

RECURSIVE Evict(_, _, _)
Evict(buf, total, cutoff) ==
    IF Len(buf) > 2 /\ (buf[1].time < cutoff \/ total > HardLimit)
    THEN Evict(Tail(buf), total - buf[1].len, cutoff)
    ELSE [buf |-> buf, total |-> total]

\* cutoff = Date.now() - (bufferSecs + 15) * 1000
Cutoff(cfg, t) == t - (BufferSecs(cfg) + Margin)

\* ----------------------------------------------------------------- Init
DefaultConfig(auto) ==
    [bufferTime        |-> 5,
     autoRecord        |-> auto,
     audioDevice       |-> "Default",
     systemAudioDevice |-> "Default"]

\* App.tsx useState<Config>: the defaults, without autoRecord
RendererDefault ==
    [bufferTime        |-> 300,
     audioDevice       |-> "Default",
     systemAudioDevice |-> "Default"]

\* The state when app.whenReady() has run: config loaded from config.json, the
\* window created, and startRecording() called if config.autoRecord.
Init ==
    /\ \E auto \in BOOLEAN :
          /\ config = DefaultConfig(auto)
          /\ disk = DefaultConfig(auto)
          /\ pendingStarts = IF auto THEN 1 ELSE 0
    /\ isRecording = FALSE
    /\ recordProcess = NoProc
    /\ useSystemAudio = FALSE
    /\ videoBuffer = <<>>
    /\ totalBytes = 0
    /\ isSavingReplay = FALSE
    /\ procs = [p \in Pids |-> [status |-> "none", stdin |-> "none", sig |-> "none"]]
    /\ timers = <<>>
    /\ jobs = {}
    /\ nextJob = 1
    /\ files = {}
    /\ artifacts = {}
    /\ rendererConfig = RendererDefault
    /\ now = 0
    /\ sent = <<>>
    /\ last = Ran("ready", "")

\* ------------------------------------------------------------ supervisor

\* Faulty variant of StartGuard: the early return is missing.
StartGuard_Missing == FALSE

\* startRecording, line 687: if (isRecording) return;
StartGuard == isRecording

\* stopRecording, line 856: if (!isRecording) return;
StopGuard == ~isRecording

\* startRecording() up to the fetchDevices() call: the buffer directory is
\* emptied and the device enumeration is started.
StartBody ==
    IF StartGuard
    THEN UNCHANGED <<files, pendingStarts>>
    ELSE /\ files' = {}
         /\ pendingStarts' = pendingStarts + 1

\* Room for one more spawn within MaxProcs.
SpawnRoom == pendingStarts + Cardinality(Spawned) < MaxProcs

\* ipcMain.handle('start-recording', startRecording)
StartRecording ==
    /\ StartGuard \/ SpawnRoom
    /\ StartBody
    /\ sent' = <<>>
    /\ last' = Ran("startRecording", IF StartGuard THEN "ignored" ELSE "accepted")
    /\ UNCHANGED <<isRecording, recordProcess, useSystemAudio, videoBuffer,
                   totalBytes, config, disk, isSavingReplay, procs, timers,
                   jobs, nextJob, artifacts, rendererConfig, now>>

\* spawn(ffmpeg, args, {stdio: useSystemAudio ? ['pipe',..] : ['ignore',..]})
\* "ok": the process runs.  "error": the executable cannot be started, the
\* handle is returned and only its 'error' event follows (no 'exit').
NewProcess(result, sysAudio) ==
    [status |-> IF result = "ok" THEN "alive" ELSE "failed",
     stdin  |-> IF ~sysAudio THEN "none"
                ELSE IF result = "ok" THEN "open" ELSE "destroyed",
     sig    |-> "none"]

\* isRecording = true, line 841
StartedFlag == TRUE

\* fetchDevices().then((currentDevices) => { ... }), lines 710-852.
\* result "throw": spawn() throws and the rest of the callback is skipped.
DevicesFetched(result) ==
    /\ pendingStarts > 0
    /\ pendingStarts' = pendingStarts - 1
    /\ useSystemAudio' = (config.systemAudioDevice # "None")
    /\ IF result = "throw"
       THEN /\ sent' = <<>>
            /\ UNCHANGED <<isRecording, recordProcess, videoBuffer, totalBytes,
                           config, disk, procs>>
       ELSE LET p == Cardinality(Spawned) + 1 IN
            /\ procs' = [procs EXCEPT ![p] = NewProcess(result, useSystemAudio')]
            /\ recordProcess' = p
            /\ videoBuffer' = <<>>
            /\ totalBytes' = 0
            /\ isRecording' = StartedFlag
            /\ config' = [config EXCEPT !.autoRecord = TRUE]
            /\ disk' = SaveConfigToDisk(config')
            /\ sent' = IF mainWindowUsable
                       THEN <<"ipc:recording-state:true">> \o
                            (IF useSystemAudio' THEN <<"ipc:start-system-audio">> ELSE <<>>)
                       ELSE <<>>
    /\ last' = Ran("devicesFetched", result)
    /\ UNCHANGED <<isSavingReplay, timers, jobs, nextJob, files, artifacts,
                   rendererConfig, now>>

\* recordProcess.stdin?.end(); recordProcess.kill('SIGINT')
Interrupted(pr) ==
    [pr EXCEPT !.stdin = IF @ = "open" THEN "ended" ELSE @,
               !.sig   = IF pr.status = "alive" /\ @ = "none" THEN "SIGINT" ELSE @]

\* Faulty variant of StoppedFlag: the flag is left for the exit handler to reset.
StoppedFlag_Deferred == isRecording

\* isRecording = false, line 875
StoppedFlag == FALSE

\* Faulty variant of StopTrace: the process is signalled before the relay is
\* told to stop and before its input channel is closed.
StopTrace_SignalFirst ==
    (IF recordProcess # NoProc THEN <<"kill:SIGINT">> ELSE <<>>) \o
    (IF mainWindowUsable THEN <<"ipc:stop-system-audio">> ELSE <<>>) \o
    (IF recordProcess # NoProc /\ procs[recordProcess].stdin # "none"
     THEN <<"stdin.end">> ELSE <<>>) \o
    (IF recordProcess # NoProc THEN <<"setTimeout:kill">> ELSE <<>>) \o
    (IF mainWindowUsable THEN <<"ipc:recording-state:false">> ELSE <<>>)

\* What stopRecording() sends, signals and arms, in program order (lines
\* 859-880).  recordProcess.stdin?.end() does nothing when the process was
\* spawned without an input channel.
StopTrace ==
    (IF mainWindowUsable THEN <<"ipc:stop-system-audio">> ELSE <<>>) \o
    (IF recordProcess # NoProc /\ procs[recordProcess].stdin # "none"
     THEN <<"stdin.end">> ELSE <<>>) \o
    (IF recordProcess # NoProc
     THEN <<"kill:SIGINT", "setTimeout:kill">> ELSE <<>>) \o
    (IF mainWindowUsable THEN <<"ipc:recording-state:false">> ELSE <<>>)

\* The body of stopRecording() past its guard, run on configuration cfg;
\* more is what the caller arms after it returns.
StopBody(cfg, more) ==
    /\ procs' = IF recordProcess # NoProc
                THEN [procs EXCEPT ![recordProcess] = Interrupted(@)]
                ELSE procs
    /\ timers' = (IF recordProcess # NoProc
                  THEN Append(timers, [kind |-> "kill", at |-> now + KillDelay,
                                       armedFor |-> recordProcess])
                  ELSE timers) \o more
    /\ isRecording' = StoppedFlag
    /\ useSystemAudio' = FALSE
    /\ config' = [cfg EXCEPT !.autoRecord = FALSE]
    /\ disk' = SaveConfigToDisk(config')

\* ipcMain.handle('stop-recording', stopRecording)
StopRecording ==
    /\ IF StopGuard
       THEN /\ sent' = <<>>
            /\ UNCHANGED <<procs, timers, isRecording, useSystemAudio, config, disk>>
       ELSE /\ sent' = StopTrace
            /\ StopBody(config, <<>>)
    /\ last' = Ran("stopRecording", IF StopGuard THEN "ignored" ELSE "accepted")
    /\ UNCHANGED <<recordProcess, videoBuffer, totalBytes, isSavingReplay,
                   pendingStarts, jobs, nextJob, files, artifacts,
                   rendererConfig, now>>

\* Faulty variant of ExitTrace: the relay is not told to stop.
ExitTrace_RelayKeptRunning ==
    IF mainWindowUsable THEN <<"ipc:recording-state:false">> ELSE <<>>

\* What the 'exit' handler sends, lines 834-837.
ExitTrace ==
    IF mainWindowUsable
    THEN <<"ipc:recording-state:false", "ipc:stop-system-audio">>
    ELSE <<>>

\* Faulty variant of ExitFlag: the flag is flipped.
ExitFlag_Toggled == ~isRecording

\* isRecording = false, line 833
ExitFlag == FALSE

\* recordProcess.on('exit', ...), lines 831-839, for process p.  The path
\* taken is named after the last signal sent to p ("none": p exited on its own).
ProcExit(p) ==
    /\ procs[p].status = "alive"
    /\ procs' = [procs EXCEPT ![p].status = "exited",
                              ![p].stdin = IF @ = "none" THEN "none" ELSE "destroyed"]
    /\ isRecording' = ExitFlag
    /\ useSystemAudio' = FALSE
    /\ sent' = ExitTrace
    /\ last' = Ran("exit", procs[p].sig)
    /\ UNCHANGED <<recordProcess, videoBuffer, totalBytes, config, disk,
                   isSavingReplay, pendingStarts, timers, jobs, nextJob, files,
                   artifacts, rendererConfig, now>>

\* recordProcess.stdout?.on('data', (chunk) => { ... }), lines 805-817, as
\* registered on process p
DataArrive(p, size) ==
    /\ procs[p].status = "alive"
    /\ Len(videoBuffer) < MaxChunks
    /\ LET pushed == Append(videoBuffer, [time |-> now, len |-> size, src |-> p])
           kept   == Evict(pushed, totalBytes + size, Cutoff(config, now))
       IN /\ videoBuffer' = kept.buf
          /\ totalBytes' = kept.total
    /\ sent' = <<>>
    /\ last' = Ran("data", IF Len(videoBuffer') <= Len(videoBuffer)
                            THEN "evicted" ELSE "kept")
    /\ UNCHANGED <<isRecording, recordProcess, useSystemAudio, config, disk,
                   isSavingReplay, procs, pendingStarts, timers, jobs, nextJob,
                   files, artifacts, rendererConfig, now>>

\* A setTimeout callback runs.  "kill" is the callback of stopRecording
\* (lines 868-873), "restart" the one of save-config (line 1130).
TimerFire ==
    /\ timers # <<>>
    /\ Head(timers).at <= now
    /\ Head(timers).kind \in {"kill", "restart"}
    /\ timers' = Tail(timers)
    /\ IF Head(timers).kind = "kill"
       THEN /\ procs' = IF recordProcess # NoProc /\ procs[recordProcess].status = "alive"
                        THEN [procs EXCEPT ![recordProcess].sig = "SIGKILL"]
                        ELSE procs
            /\ recordProcess' = NoProc
            /\ sent' = IF recordProcess # NoProc THEN <<"kill:SIGKILL">> ELSE <<>>
            /\ UNCHANGED <<files, pendingStarts>>
       ELSE /\ StartGuard \/ SpawnRoom
            /\ StartBody
            /\ sent' = <<>>
            /\ UNCHANGED <<procs, recordProcess>>
    /\ last' = Ran("timer", Head(timers).kind)
    /\ UNCHANGED <<isRecording, useSystemAudio, videoBuffer, totalBytes, config,
                   disk, isSavingReplay, jobs, nextJob, artifacts,
                   rendererConfig, now>>

\* Time passes; a due timer callback runs before the clock moves on.
Tick(d) ==
    /\ now + d <= MaxTime
    /\ timers # <<>> => now + d <= Head(timers).at
    /\ now' = now + d
    /\ sent' = <<>>
    /\ last' = Ran("tick", "")
    /\ UNCHANGED <<isRecording, recordProcess, useSystemAudio, videoBuffer,
                   totalBytes, config, disk, isSavingReplay, procs,
                   pendingStarts, timers, jobs, nextJob, files, artifacts,
                   rendererConfig>>

\* -------------------------------------------------------------- extractor

\* saveReplay, line 886: if (!isRecording) return;
SaveInactive == ~isRecording

\* Faulty variant of DuplicateSave: the single-flight check is missing.
DuplicateSave_Missing == FALSE

\* saveReplay, line 887: if (isSavingReplay) { ...; return; }
DuplicateSave == isSavingReplay

\* saveReplay, line 893: videoBuffer.length === 0
BufferEmpty == Len(videoBuffer) = 0

\* Faulty variant of BufferTooSmall: the byte threshold is not checked.
BufferTooSmall_Missing == FALSE

\* saveReplay, line 897: totalBytes < 1024
BufferTooSmall == totalBytes < MinBytes

InFlight == {j \in jobs : j.phase # "dead"}

\* path.join(tempDir, `dump_${Date.now()}.ts`) of extraction id
DumpFile(id) == [kind |-> "dump", job |-> id]

\* Faulty variant of ChunksCopy: the newest chunk comes first.
ChunksCopy_Reversed(buf) ==
    [k \in 1..Len(buf) |-> [len |-> buf[Len(buf) + 1 - k].len,
                            src |-> buf[Len(buf) + 1 - k].src]]

\* const chunksCopy = videoBuffer.map(v => v.chunk), line 914: a new array
\* of the payloads, without the timestamps.
ChunksCopy(buf) ==
    [k \in 1..Len(buf) |-> [len |-> buf[k].len, src |-> buf[k].src]]

\* Faulty variant of WriteNext: the chunks are read from the live buffer
\* instead of the copy taken by saveReplay().
WriteNext_FromLiveBuffer(j, n) ==
    LET live == ChunksCopy(videoBuffer)
        m    == IF n < Len(live) THEN n ELSE Len(live)
    IN [j EXCEPT !.i = n,
                 !.snapshot = live,
                 !.written = SubSeq(live, 1, m),
                 !.ends = IF n < Len(j.snapshot) THEN @ ELSE @ + 1,
                 !.phase = IF n < Len(j.snapshot) THEN "draining" ELSE "ending"]

\* Faulty variant of WriteNext: the stream is ended when the first write
\* reports a full buffer.
WriteNext_EndsEarly(j, n) ==
    [j EXCEPT !.i = n,
              !.written = @ \o SubSeq(j.snapshot, j.i + 1, n),
              !.ends = @ + 1,
              !.phase = "ending"]

\* writeNext(), lines 920-930, entered with i chunks written: it writes up to
\* and including chunk n, where either write() returned false at chunk n
\* (more chunks left, 'drain' awaited) or n is the last chunk (end() called).
\* written: what has been passed to writeStream.write(), in order; ends: the
\* number of calls of writeStream.end().
WriteNext(j, n) ==
    [j EXCEPT !.i = n,
              !.written = @ \o SubSeq(j.snapshot, j.i + 1, n),
              !.ends = IF n < Len(j.snapshot) THEN @ ELSE @ + 1,
              !.phase = IF n < Len(j.snapshot) THEN "draining" ELSE "ending"]

\* The chunk counts writeNext() can stop at when entered with i written.
\* With nothing left to write the loop is skipped and end() is called.
WriteStops(j) ==
    IF j.i < Len(j.snapshot) THEN (j.i + 1)..Len(j.snapshot) ELSE {j.i}

\* function saveReplay(), lines 885-971.  mkdirOk: ensureDir(outputFolder)
\* returned; otherwise it threw and the handler was left at line 906.
SaveReplay(mkdirOk) ==
    /\ nextJob <= MaxJobs
    /\ last' = Ran("saveReplay",
                    CASE SaveInactive   -> "inactive"
                      [] DuplicateSave  -> "duplicate"
                      [] BufferEmpty    -> "empty"
                      [] BufferTooSmall -> "small"
                      [] ~mkdirOk       -> "mkdirThrows"
                      [] OTHER          -> "accepted")
    /\ UNCHANGED <<isRecording, recordProcess, useSystemAudio, videoBuffer,
                   totalBytes, config, disk, procs, pendingStarts, timers,
                   artifacts, rendererConfig, now>>
    /\ IF SaveInactive
       THEN /\ sent' = <<>>
            /\ UNCHANGED <<isSavingReplay, jobs, nextJob, files>>
       ELSE IF DuplicateSave
       THEN /\ sent' = <<"log:Save already in progress, ignoring duplicate request.">>
            /\ UNCHANGED <<isSavingReplay, jobs, nextJob, files>>
       ELSE IF BufferEmpty
       THEN /\ sent' = <<"notify:No video buffered yet.">>
            /\ UNCHANGED <<isSavingReplay, jobs, nextJob, files>>
       ELSE IF BufferTooSmall
       THEN /\ sent' = <<"notify:Not enough video buffered yet.">>
            /\ UNCHANGED <<isSavingReplay, jobs, nextJob, files>>
       ELSE /\ isSavingReplay' = TRUE
            /\ nextJob' = nextJob + 1
            /\ sent' = <<>>
            /\ IF ~mkdirOk
               THEN UNCHANGED <<jobs, files>>
               ELSE \E n \in 1..Len(videoBuffer) :
                       LET j == [id |-> nextJob, snapshot |-> ChunksCopy(videoBuffer),
                                 i |-> 0, written |-> <<>>, ends |-> 0,
                                 phase |-> "draining", input |-> FALSE]
                       IN /\ jobs' = jobs \cup {WriteNext(j, n)}
                          /\ files' = files \cup {DumpFile(nextJob)}

\* writeStream.once('drain', writeNext)
DumpDrain(j) ==
    /\ j \in jobs
    /\ j.phase = "draining"
    /\ \E n \in WriteStops(j) : jobs' = (jobs \ {j}) \cup {WriteNext(j, n)}
    /\ sent' = <<>>
    /\ last' = Ran("drain", "")
    /\ UNCHANGED <<isRecording, recordProcess, useSystemAudio, videoBuffer,
                   totalBytes, config, disk, isSavingReplay, procs,
                   pendingStarts, timers, nextJob, files, artifacts,
                   rendererConfig, now>>

\* The write stream fails (its file cannot be opened or written).  No 'error'
\* listener is attached: the error reaches the uncaughtException handler of
\* lines 624-635 and neither 'drain' nor 'finish' follows.
DumpError(j) ==
    /\ j \in jobs
    /\ j.phase \in {"draining", "ending"}
    /\ jobs' = (jobs \ {j}) \cup {[j EXCEPT !.phase = "dead"]}
    /\ sent' = <<>>
    /\ last' = Ran("writeError", "")
    /\ UNCHANGED <<isRecording, recordProcess, useSystemAudio, videoBuffer,
                   totalBytes, config, disk, isSavingReplay, procs,
                   pendingStarts, timers, nextJob, files, artifacts,
                   rendererConfig, now>>

\* writeStream.on('finish', ...), lines 932-968: the trim process is spawned.
\* "ok": it runs; "error": only its 'error' event follows; "throw": spawn()
\* throws inside the listener.  input: the dump is still in tempDir.
DumpFinish(j, result) ==
    /\ j \in jobs
    /\ j.phase = "ending"
    /\ jobs' = (jobs \ {j}) \cup
               {[j EXCEPT !.phase = CASE result = "ok"    -> "trimming"
                                      [] result = "error" -> "spawnFailed"
                                      [] OTHER            -> "dead",
                          !.input = DumpFile(j.id) \in files]}
    /\ sent' = <<>>
    /\ last' = Ran("finish", result)
    /\ UNCHANGED <<isRecording, recordProcess, useSystemAudio, videoBuffer,
                   totalBytes, config, disk, isSavingReplay, procs,
                   pendingStarts, timers, nextJob, files, artifacts,
                   rendererConfig, now>>

\* Faulty variant of Unlink: the file is left in place.
Unlink_Skipped(fs, f) == fs

\* try { if (fs.existsSync(f)) fs.unlinkSync(f); } catch (e) { }
Unlink(fs, f) == fs \ {f}

\* extractProcess.on('error', ...), lines 947-952
ExtractError(j) ==
    /\ j \in jobs
    /\ j.phase = "spawnFailed"
    /\ isSavingReplay' = FALSE
    /\ files' = Unlink(files, DumpFile(j.id))
    /\ jobs' = jobs \ {j}
    /\ sent' = <<"notify:Failed to save replay: error">>
    /\ last' = Ran("extractError", "")
    /\ UNCHANGED <<isRecording, recordProcess, useSystemAudio, videoBuffer,
                   totalBytes, config, disk, procs, pendingStarts, timers,
                   nextJob, artifacts, rendererConfig, now>>

\* Exit codes of the trim process: it cannot succeed without its input.
ExitCodes(j) == IF j.input THEN {0, 1} ELSE {1}

\* The size of the output file a trim process that exited with code 0 has
\* left: a stream copy that found no packet to copy leaves a file below
\* the 1024 bytes of line 383.
OutputSizes == {0, MinBytes}

\* extractProcess.on('exit', (code) => ...), lines 954-967
ExtractExit(j, code) ==
    /\ j \in jobs
    /\ j.phase = "trimming"
    /\ code \in ExitCodes(j)
    /\ isSavingReplay' = FALSE
    /\ files' = Unlink(files, DumpFile(j.id))
    /\ jobs' = jobs \ {j}
    /\ \E size \in OutputSizes :
          artifacts' = IF code = 0
                       THEN artifacts \cup {[job |-> j.id, size |-> size]}
                       ELSE artifacts
    /\ sent' = IF code = 0 THEN <<"notify:Replay saved!">>
               ELSE <<"notify:Failed to save replay. Code">>
    /\ last' = Ran("extractExit", IF code = 0 THEN "0" ELSE "nonzero")
    /\ UNCHANGED <<isRecording, recordProcess, useSystemAudio, videoBuffer,
                   totalBytes, config, disk, procs, pendingStarts, timers,
                   nextJob, rendererConfig, now>>

\* ---------------------------------------------------------- configuration

\* App.tsx lines 54-56: window.api.getConfig().then(setConfig), once per mount
RendererLoad ==
    /\ "autoRecord" \notin DOMAIN rendererConfig
    /\ rendererConfig' = config
    /\ sent' = <<>>
    /\ last' = Ran("getConfig", "")
    /\ UNCHANGED progVars
    /\ UNCHANGED now

\* save-config, line 1128: the restart condition, evaluated after
\* Object.assign(config, newConfig) on the merged configuration merged
AudioSetupChanged(merged, newConfig) ==
    /\ \/ Get(merged, "audioDevice") # Get(newConfig, "audioDevice")
       \/ Get(merged, "systemAudioDevice") # Get(newConfig, "systemAudioDevice")
    /\ isRecording

\* App.tsx handleConfigChange(key, value) (lines 166-170) followed by
\* ipcMain.handle('save-config', ...) (lines 1114-1134)
SaveConfig(key, value) ==
    LET newConfig == Spread(rendererConfig, key, value)
        merged    == ObjectAssign(config, newConfig)
    IN /\ "autoRecord" \in DOMAIN rendererConfig
       /\ rendererConfig' = newConfig
       /\ IF AudioSetupChanged(merged, newConfig)
          THEN /\ IF StopGuard
                  THEN /\ sent' = <<"setTimeout:restart">>
                       /\ timers' = Append(timers, [kind |-> "restart",
                                        at |-> now + RestartDelay, armedFor |-> NoProc])
                       /\ config' = merged
                       /\ disk' = SaveConfigToDisk(config')
                       /\ UNCHANGED <<procs, isRecording, useSystemAudio>>
                  ELSE /\ sent' = StopTrace \o <<"setTimeout:restart">>
                       /\ StopBody(merged, <<[kind |-> "restart",
                                        at |-> now + RestartDelay, armedFor |-> NoProc]>>)
          ELSE /\ sent' = <<>>
               /\ config' = merged
               /\ disk' = SaveConfigToDisk(config')
               /\ UNCHANGED <<procs, timers, isRecording, useSystemAudio>>
       /\ last' = Ran("saveConfig",
                      CASE Get(config, key) = value -> "same"
                        [] isRecording              -> "changedWhileRecording"
                        [] OTHER                    -> "changed")
       /\ UNCHANGED <<recordProcess, videoBuffer, totalBytes, isSavingReplay,
                      pendingStarts, jobs, nextJob, files, artifacts, now>>

\* ---------------------------------------------------- segment architecture
\* The earlier architecture of the main process (src/unnamed/part_000): the
\* encoder writes rolling segment files into the buffer directory, a periodic
\* sweep deletes old ones and saveReplay() concatenates what is there.
\* startRecording() up to fetchDevices() (lines 73-84) and the 'exit' handler
\* (lines 187-195) are the same code as StartRecording and ProcExit above.

\* A segment file buffer_<time>.ts, last written at time t.  File names carry
\* the time the segment was started, so they sort like the modification times.
Segment(t) == [kind |-> "segment", mtime |-> t]

\* concat.txt, written at time t
ConcatList(t) == [kind |-> "list", mtime |-> t]

\* fs.readdirSync(tempDir).filter(f => f.endsWith('.ts'))
Segments == {f \in files : f.kind = "segment"}

\* .sort(): the files of S by name, oldest first
RECURSIVE Sorted(_)
Sorted(S) ==
    IF S = {} THEN <<>>
    ELSE LET first == CHOOSE f \in S : \A g \in S : f.mtime <= g.mtime
         IN <<first>> \o Sorted(S \ {first})

\* cleanOldSegments, line 58: maxAgeMs
MaxAge(cfg) == cfg.bufferTime + SweepSlack

\* cleanOldSegments, line 64: now - stats.mtimeMs > maxAgeMs
TooOld(f, t) == t - f.mtime > MaxAge(config)

\* fetchDevices().then(...) of part_000, lines 94-210: spawn of the segment
\* encoder, the burst of silence for its input channel, the flags, the IPC
\* sends and the sweep interval.
DevicesFetchedSegments(result) ==
    /\ pendingStarts > 0
    /\ pendingStarts' = pendingStarts - 1
    /\ useSystemAudio' = (config.systemAudioDevice # "None")
    /\ IF result = "throw"
       THEN /\ sent' = <<>>
            /\ UNCHANGED <<isRecording, recordProcess, config, disk, procs, timers>>
       ELSE LET p == Cardinality(Spawned) + 1 IN
            /\ procs' = [procs EXCEPT ![p] = NewProcess(result, useSystemAudio')]
            /\ recordProcess' = p
            /\ isRecording' = StartedFlag
            /\ config' = [config EXCEPT !.autoRecord = TRUE]
            /\ disk' = SaveConfigToDisk(config')
            /\ timers' = Append(timers, [kind |-> "sweep", at |-> now + SweepPeriod,
                                         armedFor |-> NoProc])
            /\ sent' = (IF useSystemAudio' THEN <<"stdin.write:silence">> ELSE <<>>) \o
                       (IF mainWindowUsable
                        THEN <<"ipc:recording-state:true">> \o
                             (IF useSystemAudio' THEN <<"ipc:start-system-audio">> ELSE <<>>)
                        ELSE <<>>) \o <<"setInterval:sweep">>
    /\ last' = Ran("devicesFetchedSegments", result)
    /\ UNCHANGED <<videoBuffer, totalBytes, isSavingReplay, jobs, nextJob, files,
                   artifacts, rendererConfig, now>>

\* The segment muxer of process p ('-f', 'segment', lines 166-169) completes a
\* segment file.
SegmentWritten(p) ==
    /\ procs[p].status = "alive"
    /\ Cardinality(Segments) < MaxSegments
    /\ files' = files \cup {Segment(now)}
    /\ sent' = <<>>
    /\ last' = Ran("segment", "")
    /\ UNCHANGED <<isRecording, recordProcess, useSystemAudio, videoBuffer,
                   totalBytes, config, disk, isSavingReplay, procs,
                   pendingStarts, timers, jobs, nextJob, artifacts,
                   rendererConfig, now>>

\* function cleanOldSegments(), lines 55-71, run by the interval of line 209,
\* which then waits for its next period.
CleanOldSegments ==
    /\ timers # <<>>
    /\ Head(timers).at <= now
    /\ Head(timers).kind = "sweep"
    /\ timers' = Append(Tail(timers), [Head(timers) EXCEPT !.at = @ + SweepPeriod])
    /\ files' = files \ {f \in Segments : TooOld(f, now)}
    /\ sent' = <<>>
    /\ last' = Ran("cleanOldSegments",
                   IF \E f \in Segments : TooOld(f, now) THEN "deleted" ELSE "kept")
    /\ UNCHANGED <<isRecording, recordProcess, useSystemAudio, videoBuffer,
                   totalBytes, config, disk, isSavingReplay, procs,
                   pendingStarts, jobs, nextJob, artifacts, rendererConfig, now>>

\* function saveReplay() of part_000, lines 242-287.  The concat list names
\* every .ts file of the buffer directory, sorted by name.  mkdirOk:
\* ensureDir(outputFolder) returned; otherwise it threw at line 260, after the
\* list was written and before the concat process is spawned.
SaveReplaySegments(mkdirOk) ==
    /\ nextJob <= MaxJobs
    /\ last' = Ran("saveReplaySegments",
                    CASE SaveInactive  -> "inactive"
                      [] Segments = {} -> "empty"
                      [] ~mkdirOk      -> "mkdirThrows"
                      [] OTHER         -> "accepted")
    /\ UNCHANGED <<isRecording, recordProcess, useSystemAudio, videoBuffer,
                   totalBytes, config, disk, isSavingReplay, procs,
                   pendingStarts, timers, artifacts, rendererConfig, now>>
    /\ IF SaveInactive
       THEN /\ sent' = <<>>
            /\ UNCHANGED <<jobs, nextJob, files>>
       ELSE IF Segments = {}
       THEN /\ sent' = <<"notify:No video buffered yet.">>
            /\ UNCHANGED <<jobs, nextJob, files>>
       ELSE /\ files' = Segments \cup {ConcatList(now)}
            /\ sent' = <<>>
            /\ IF ~mkdirOk
               THEN UNCHANGED <<jobs, nextJob>>
               ELSE /\ nextJob' = nextJob + 1
                    /\ jobs' = jobs \cup {[id |-> nextJob, snapshot |-> Sorted(Segments),
                                           i |-> 0, written |-> <<>>, ends |-> 0,
                                           phase |-> "concat", input |-> TRUE]}

\* concatProcess.on('exit', (code) => ...) of part_000, lines 275-285
ConcatExit(j, code) ==
    /\ j \in jobs
    /\ j.phase = "concat"
    /\ jobs' = jobs \ {j}
    /\ \E size \in OutputSizes :
          artifacts' = IF code = 0
                       THEN artifacts \cup {[job |-> j.id, size |-> size]}
                       ELSE artifacts
    /\ sent' = IF code = 0 THEN <<"notify:Replay saved!">>
               ELSE <<"notify:Failed to save replay. Code">>
    /\ last' = Ran("concatExit", IF code = 0 THEN "0" ELSE "nonzero")
    /\ UNCHANGED <<isRecording, recordProcess, useSystemAudio, videoBuffer,
                   totalBytes, config, disk, isSavingReplay, procs,
                   pendingStarts, timers, nextJob, files, rendererConfig, now>>

\* ------------------------------------------------------- disk architecture
\* The segment architecture of src/main/index.ts, lines 1-609: segments of
\* SEGMENT_DURATION seconds, a sweep every 15 s, and a saveReplay() that
\* concatenates the newest segments and then trims the result.
\* startRecording() up to fetchDevices() (lines 89-100) and the 'exit' handler
\* (lines 211-219) are the same code as StartRecording and ProcExit above.

\* The values of bufferTime in config.json when the application starts.
DiskWindows == {5, 7}

\* Math.ceil(a / b) for positive integers
Ceil(a, b) == (a + b - 1) \div b

\* The state when app.whenReady() has run, with the stored bufferTime.
InitDisk ==
    /\ \E auto \in BOOLEAN, w \in DiskWindows :
          /\ config = [DefaultConfig(auto) EXCEPT !.bufferTime = w]
          /\ disk = config
          /\ pendingStarts = IF auto THEN 1 ELSE 0
    /\ isRecording = FALSE
    /\ recordProcess = NoProc
    /\ useSystemAudio = FALSE
    /\ videoBuffer = <<>>
    /\ totalBytes = 0
    /\ isSavingReplay = FALSE
    /\ procs = [p \in Pids |-> [status |-> "none", stdin |-> "none", sig |-> "none"]]
    /\ timers = <<>>
    /\ jobs = {}
    /\ nextJob = 1
    /\ files = {}
    /\ artifacts = {}
    /\ rendererConfig = RendererDefault
    /\ now = 0
    /\ sent = <<>>
    /\ last = Ran("ready", "")

\* let cleanupInterval, line 33: the handle stored at line 233 is that of the
\* interval armed by the latest spawn (intervals carry the number of the
\* process they were armed with); null before the first spawn.
cleanupInterval == Cardinality(Spawned)

\* setTimeout / setInterval: the timer t joins the pending timers ts, which
\* are kept in the order they fall due.
Arm(ts, t) ==
    LET k == Cardinality({i \in DOMAIN ts : ts[i].at <= t.at})
    IN SubSeq(ts, 1, k) \o <<t>> \o SubSeq(ts, k + 1, Len(ts))

\* clearInterval(h)
ClearInterval(ts, h) ==
    SelectSeq(ts, LAMBDA t : ~(t.kind = "sweep" /\ t.armedFor = h))

\* A segment file buffer_<time>.ts of the given size, last written at time t.
DiskSegment(t, size) == [kind |-> "segment", mtime |-> t, size |-> size]

\* concat.txt with the given lines
ConcatTxt(lines) == [kind |-> "list", lines |-> lines]

\* temp_concat_<Date.now()>.mp4 of extraction id
TempConcat(id) == [kind |-> "temp", job |-> id]

\* fs.writeFileSync(concatListPath, ...), line 306: concat.txt is replaced
WriteConcatTxt(fs, lines) == {f \in fs : f.kind # "list"} \cup {ConcatTxt(lines)}

\* saveReplay, lines 278-290: the .ts files sorted by name, without those
\* that are empty
AllFiles == Sorted({f \in Segments : f.size > 0})

\* saveReplay, line 299: Math.ceil(bufferSecs / SEGMENT_DURATION) + 2
SegmentsNeeded(cfg) == Ceil(cfg.bufferTime, SegmentDuration) + 2

\* Faulty variant of SliceLast: the oldest k elements.
SliceLast_Oldest(seq, k) == IF Len(seq) <= k THEN seq ELSE SubSeq(seq, 1, k)

\* seq.slice(-k) for k > 0
SliceLast(seq, k) ==
    IF Len(seq) <= k THEN seq ELSE SubSeq(seq, Len(seq) - k + 1, Len(seq))

\* saveReplay, line 300
SelectedFiles == SliceLast(AllFiles, SegmentsNeeded(config))

\* cleanOldSegments, line 74: maxAgeMs
MaxAgeDisk(cfg) == cfg.bufferTime + SegmentDuration * 3

\* fetchDevices().then(...), lines 124-234: spawn of the segment encoder, the
\* burst of silence for its input channel, the flags, the IPC sends and the
\* sweep interval.  The input channel of a process that cannot be started is
\* destroyed only after the callback has returned.
DevicesFetchedDisk(result) ==
    /\ pendingStarts > 0
    /\ pendingStarts' = pendingStarts - 1
    /\ useSystemAudio' = (config.systemAudioDevice # "None")
    /\ IF result = "throw"
       THEN /\ sent' = <<>>
            /\ UNCHANGED <<isRecording, recordProcess, config, disk, procs, timers>>
       ELSE LET p == Cardinality(Spawned) + 1 IN
            /\ procs' = [procs EXCEPT ![p] = NewProcess(result, useSystemAudio')]
            /\ recordProcess' = p
            /\ isRecording' = StartedFlag
            /\ config' = [config EXCEPT !.autoRecord = TRUE]
            /\ disk' = SaveConfigToDisk(config')
            /\ timers' = Arm(timers, [kind |-> "sweep", at |-> now + SweepInterval,
                                      armedFor |-> p])
            /\ sent' = (IF useSystemAudio' THEN <<"stdin.write:silence">> ELSE <<>>) \o
                       (IF mainWindowUsable
                        THEN <<"ipc:recording-state:true">> \o
                             (IF useSystemAudio' THEN <<"ipc:start-system-audio">> ELSE <<>>)
                        ELSE <<>>) \o <<"setInterval:sweep">>
    /\ last' = Ran("devicesFetchedDisk", result)
    /\ UNCHANGED <<videoBuffer, totalBytes, isSavingReplay, jobs, nextJob, files,
                   artifacts, rendererConfig, now>>

\* function stopRecording(), lines 237-264
StopRecordingDisk ==
    /\ IF StopGuard
       THEN /\ sent' = <<>>
            /\ UNCHANGED <<procs, timers, isRecording, useSystemAudio, config, disk>>
       ELSE /\ sent' = (IF mainWindowUsable THEN <<"ipc:stop-system-audio">> ELSE <<>>) \o
                       (IF recordProcess # NoProc /\ procs[recordProcess].stdin # "none"
                        THEN <<"stdin.end">> ELSE <<>>) \o
                       (IF recordProcess # NoProc
                        THEN <<"kill:SIGINT">> \o
                             (IF cleanupInterval # NoProc
                              THEN <<"clearInterval:sweep">> ELSE <<>>) \o
                             <<"setTimeout:kill">>
                        ELSE <<>>) \o
                       (IF mainWindowUsable THEN <<"ipc:recording-state:false">> ELSE <<>>)
            /\ procs' = IF recordProcess # NoProc
                        THEN [procs EXCEPT ![recordProcess] = Interrupted(@)]
                        ELSE procs
            /\ timers' = IF recordProcess # NoProc
                         THEN Arm(ClearInterval(timers, cleanupInterval),
                                  [kind |-> "kill", at |-> now + KillDelay,
                                   armedFor |-> recordProcess])
                         ELSE timers
            /\ isRecording' = StoppedFlag
            /\ useSystemAudio' = FALSE
            /\ config' = [config EXCEPT !.autoRecord = FALSE]
            /\ disk' = SaveConfigToDisk(config')
    /\ last' = Ran("stopRecordingDisk", IF StopGuard THEN "ignored" ELSE "accepted")
    /\ UNCHANGED <<recordProcess, videoBuffer, totalBytes, isSavingReplay,
                   pendingStarts, jobs, nextJob, files, artifacts,
                   rendererConfig, now>>

\* The files fs once the segment that was being written has been closed: a
\* segment file is empty only between its creation and the first write.
Closed(fs) ==
    {f \in fs : f.kind # "segment"} \cup
    {DiskSegment(f.mtime, IF f.size = 0 THEN MinBytes ELSE f.size) :
        f \in {g \in fs : g.kind = "segment"}}

\* The segment muxer of process p ('-f', 'segment') closes the segment it was
\* writing and opens the next one, which has the given size when the next
\* handler runs; 0: nothing has been written to it yet.
SegmentWrittenDisk(p, size) ==
    /\ procs[p].status = "alive"
    /\ Cardinality(Segments) < MaxDiskSegments
    /\ \A f \in Segments : f.mtime < now
    /\ files' = Closed(files) \cup {DiskSegment(now, size)}
    /\ sent' = <<>>
    /\ last' = Ran("segmentDisk", "")
    /\ UNCHANGED <<isRecording, recordProcess, useSystemAudio, videoBuffer,
                   totalBytes, config, disk, isSavingReplay, procs,
                   pendingStarts, timers, jobs, nextJob, artifacts,
                   rendererConfig, now>>

\* function cleanOldSegments(), lines 70-87, run by an interval of line 233,
\* which then waits for its next period.
CleanOldSegmentsDisk ==
    /\ timers # <<>>
    /\ Head(timers).at <= now
    /\ Head(timers).kind = "sweep"
    /\ timers' = Arm(Tail(timers), [Head(timers) EXCEPT !.at = @ + SweepInterval])
    /\ files' = files \ {f \in Segments : now - f.mtime > MaxAgeDisk(config)}
    /\ sent' = <<>>
    /\ last' = Ran("cleanOldSegmentsDisk",
                   IF \E f \in Segments : now - f.mtime > MaxAgeDisk(config)
                   THEN "deleted" ELSE "kept")
    /\ UNCHANGED <<isRecording, recordProcess, useSystemAudio, videoBuffer,
                   totalBytes, config, disk, isSavingReplay, procs,
                   pendingStarts, jobs, nextJob, artifacts, rendererConfig, now>>

\* function saveReplay(), lines 268-404, up to the spawn of the concat
\* process.  mkdirOk: ensureDir(outputFolder) returned; otherwise it threw at
\* line 309.  result: what spawn() of line 319 did.
SaveReplayDisk(mkdirOk, result) ==
    /\ nextJob <= MaxJobs
    /\ last' = Ran("saveReplayDisk",
                    CASE SaveInactive    -> "inactive"
                      [] DuplicateSave   -> "duplicate"
                      [] AllFiles = <<>> -> "empty"
                      [] ~mkdirOk        -> "mkdirThrows"
                      [] OTHER           -> "accepted")
    /\ UNCHANGED <<isRecording, recordProcess, useSystemAudio, videoBuffer,
                   totalBytes, config, disk, procs, pendingStarts, timers,
                   artifacts, rendererConfig, now>>
    /\ IF SaveInactive
       THEN /\ sent' = <<>>
            /\ UNCHANGED <<isSavingReplay, jobs, nextJob, files>>
       ELSE IF DuplicateSave
       THEN /\ sent' = <<"log:Save already in progress, ignoring duplicate request.">>
            /\ UNCHANGED <<isSavingReplay, jobs, nextJob, files>>
       ELSE IF AllFiles = <<>>
       THEN /\ sent' = <<"notify:No video buffered yet.">>
            /\ UNCHANGED <<isSavingReplay, jobs, nextJob, files>>
       ELSE /\ isSavingReplay' = TRUE
            /\ nextJob' = nextJob + 1
            /\ files' = WriteConcatTxt(files, SelectedFiles)
            /\ sent' = <<>>
            /\ IF ~mkdirOk \/ result = "throw"
               THEN UNCHANGED jobs
               ELSE jobs' = jobs \cup
                       {[id |-> nextJob, snapshot |-> SelectedFiles, i |-> 0,
                         written |-> <<>>, ends |-> 0,
                         phase |-> IF result = "ok" THEN "pass1" ELSE "pass1Failed",
                         input |-> TRUE]}

\* concatProcess.on('error', ...), lines 333-337
ConcatError(j) ==
    /\ j \in jobs
    /\ j.phase = "pass1Failed"
    /\ isSavingReplay' = FALSE
    /\ jobs' = jobs \ {j}
    /\ sent' = <<"notify:Failed to save replay: error">>
    /\ last' = Ran("concatError", "")
    /\ UNCHANGED <<isRecording, recordProcess, useSystemAudio, videoBuffer,
                   totalBytes, config, disk, procs, pendingStarts, timers,
                   nextJob, files, artifacts, rendererConfig, now>>

\* concatProcess.on('exit', ...), lines 339-402, up to the registration of
\* the handlers of the trim process.  With code 0 the concat process has left
\* its output in the buffer directory and the trim process is spawned
\* (result: what spawn() of line 353 did).
ConcatExitDisk(j, code, result) ==
    /\ j \in jobs
    /\ j.phase = "pass1"
    /\ IF code # 0
       THEN /\ isSavingReplay' = FALSE
            /\ files' = Unlink(files, TempConcat(j.id))
            /\ jobs' = jobs \ {j}
            /\ sent' = <<"notify:Failed to save replay. Code">>
       ELSE /\ files' = files \cup {TempConcat(j.id)}
            /\ jobs' = (jobs \ {j}) \cup
                       {[j EXCEPT !.phase = CASE result = "ok"    -> "pass2"
                                              [] result = "error" -> "pass2Failed"
                                              [] OTHER            -> "dead"]}
            /\ sent' = <<>>
            /\ UNCHANGED isSavingReplay
    /\ last' = Ran("concatExitDisk", IF code = 0 THEN result ELSE "nonzero")
    /\ UNCHANGED <<isRecording, recordProcess, useSystemAudio, videoBuffer,
                   totalBytes, config, disk, procs, pendingStarts, timers,
                   nextJob, artifacts, rendererConfig, now>>

\* trimProcess.on('error', ...), lines 365-370
TrimError(j) ==
    /\ j \in jobs
    /\ j.phase = "pass2Failed"
    /\ isSavingReplay' = FALSE
    /\ files' = Unlink(files, TempConcat(j.id))
    /\ jobs' = jobs \ {j}
    /\ sent' = <<"notify:Failed to trim replay: error">>
    /\ last' = Ran("trimError", "")
    /\ UNCHANGED <<isRecording, recordProcess, useSystemAudio, videoBuffer,
                   totalBytes, config, disk, procs, pendingStarts, timers,
                   nextJob, artifacts, rendererConfig, now>>

\* trimProcess.on('exit', ...), lines 372-402.  exists, size: what
\* fs.statSync(outputFile) finds when the code is 0.
TrimExit(j, code, exists, size) ==
    /\ j \in jobs
    /\ j.phase = "pass2"
    /\ files' = Unlink(files, TempConcat(j.id))
    /\ isSavingReplay' = FALSE
    /\ jobs' = jobs \ {j}
    /\ artifacts' = IF code = 0 /\ exists /\ size >= MinBytes
                    THEN artifacts \cup {[job |-> j.id, size |-> size]}
                    ELSE artifacts
    /\ sent' = CASE code # 0        -> <<"notify:Failed to save replay. Code">>
                 [] ~exists         -> <<"notify:Replay save failed: output file missing.">>
                 [] size < MinBytes -> <<"notify:Replay save failed: output file is empty.">>
                 [] OTHER           -> <<"notify:Replay saved!">>
    /\ last' = Ran("trimExit", CASE code # 0        -> "nonzero"
                                 [] ~exists         -> "missing"
                                 [] size < MinBytes -> "empty"
                                 [] OTHER           -> "saved")
    /\ UNCHANGED <<isRecording, recordProcess, useSystemAudio, videoBuffer,
                   totalBytes, config, disk, procs, pendingStarts, timers,
                   nextJob, rendererConfig, now>>

\* ------------------------------------------------------ argument planner
\* The encoder arguments built by the callback of fetchDevices(), lines
\* 713-793 (lines 113-184 for the disk architecture).

\* What config.json can hold for the fields the planner reads.
MicChoices == {"Default", "None", "Mic A", ""}
Codecs == {"h264_nvenc", "libx264"}

\* What fetchDevices() can resolve to: the audio devices dshow lists.
DeviceLists == {<<>>, <<"Mic A">>, <<"Mic B", "Mic A">>}

\* The state when app.whenReady() has run, with the stored settings.
InitPlanner ==
    /\ \E auto \in BOOLEAN, mic \in MicChoices, sys \in AudioChoices, codec \in Codecs :
          /\ config = [bufferTime        |-> 5,
                       autoRecord        |-> auto,
                       audioDevice       |-> mic,
                       systemAudioDevice |-> sys,
                       codec             |-> codec,
                       fps               |-> "60",
                       bitrate           |-> "15"]
          /\ disk = config
          /\ pendingStarts = IF auto THEN 1 ELSE 0
    /\ isRecording = FALSE
    /\ recordProcess = NoProc
    /\ useSystemAudio = FALSE
    /\ videoBuffer = <<>>
    /\ totalBytes = 0
    /\ isSavingReplay = FALSE
    /\ procs = [p \in Pids |-> [status |-> "none", stdin |-> "none", sig |-> "none"]]
    /\ timers = <<>>
    /\ jobs = {}
    /\ nextJob = 1
    /\ files = {}
    /\ artifacts = {}
    /\ rendererConfig = RendererDefault
    /\ now = 0
    /\ sent = <<>>
    /\ last = Ran("ready", "")

\* const videoInputIndex = useSystemAudio ? 1 : 0
VideoInputIndex(sysAudio) == IF sysAudio THEN 1 ELSE 0

\* const sysAudioInputIndex = useSystemAudio ? 0 : -1
SysAudioInputIndex(sysAudio) == IF sysAudio THEN 0 ELSE -1

\* Faulty variant of MicInputIndex: the system audio input is not counted.
MicInputIndex_Fixed(sysAudio) == 1

\* const micInputIndex = useSystemAudio ? 2 : 1
MicInputIndex(sysAudio) == IF sysAudio THEN 2 ELSE 1

\* let mappedMic = config.audioDevice;
\* if (mappedMic === 'Default') mappedMic = currentDevices[0] || 'None'
MappedMic(cfg, currentDevices) ==
    IF cfg.audioDevice = "Default"
    THEN IF currentDevices # <<>> THEN currentDevices[1] ELSE "None"
    ELSE cfg.audioDevice

\* mappedMic && mappedMic !== 'None' && currentDevices.includes(mappedMic)
MicAdded(cfg, currentDevices) ==
    LET mappedMic == MappedMic(cfg, currentDevices)
    IN /\ mappedMic # ""
       /\ mappedMic # "None"
       /\ \E i \in DOMAIN currentDevices : currentDevices[i] = mappedMic

\* Faulty variant of AudioInputs: the system audio source is not counted.
AudioInputs_MicOnly(sysAudio, micAdded) == IF micAdded THEN 1 ELSE 0

\* let audioInputs = 0, incremented for the system audio and the microphone
AudioInputs(sysAudio, micAdded) ==
    (IF sysAudio THEN 1 ELSE 0) + (IF micAdded THEN 1 ELSE 0)

\* `${index}:${type}`
Stream(index, type) == ToString(index) \o ":" \o type

\* The audio mapping of lines 762-776.
AudioArgs(sysAudio, micAdded) ==
    LET audioInputs == AudioInputs(sysAudio, micAdded)
    IN CASE audioInputs = 1 /\ sysAudio ->
              <<"-map", Stream(SysAudioInputIndex(sysAudio), "a"),
                "-c:a", "aac", "-b:a", "256k">>
         [] audioInputs = 1 /\ ~sysAudio ->
              <<"-map", Stream(MicInputIndex(sysAudio), "a"),
                "-c:a", "aac", "-b:a", "256k">>
         [] audioInputs = 2 ->
              <<"-filter_complex",
                "[" \o Stream(SysAudioInputIndex(sysAudio), "a") \o "][" \o
                Stream(MicInputIndex(sysAudio), "a") \o
                "]amix=inputs=2:duration=longest[aout]",
                "-map", "[aout]", "-c:a", "aac", "-b:a", "256k">>
         [] OTHER -> <<>>

\* const args, lines 713-793
Args(sysAudio, cfg, currentDevices) ==
    <<"-y">> \o
    (IF sysAudio
     THEN <<"-thread_queue_size", "4096", "-f", "webm", "-i", "pipe:0">>
     ELSE <<>>) \o
    <<"-init_hw_device", "d3d11va=dx11", "-filter_hw_device", "dx11",
      "-thread_queue_size", "4096", "-f", "lavfi",
      "-i", "ddagrab=framerate=" \o cfg.fps \o ":draw_mouse=1">> \o
    (IF MicAdded(cfg, currentDevices)
     THEN <<"-thread_queue_size", "4096", "-f", "dshow",
            "-i", "audio=" \o MappedMic(cfg, currentDevices)>>
     ELSE <<>>) \o
    <<"-map", Stream(VideoInputIndex(sysAudio), "v")>> \o
    AudioArgs(sysAudio, MicAdded(cfg, currentDevices)) \o
    <<"-vf", "hwdownload,format=bgra", "-c:v", cfg.codec,
      "-preset", IF cfg.codec = "h264_nvenc" THEN "p5" ELSE "ultrafast",
      "-b:v", cfg.bitrate \o "M", "-vsync", "cfr", "-g", "120",
      "-f", "mpegts", "-mpegts_flags", "+resend_headers", "pipe:1">>

\* The audio mapping of the disk architecture, lines 161-175.
AudioArgsDisk(sysAudio, micAdded) ==
    LET audioInputs == AudioInputs(sysAudio, micAdded)
    IN CASE audioInputs = 1 /\ sysAudio ->
              <<"-map", Stream(SysAudioInputIndex(sysAudio), "a"),
                "-c:a", "aac", "-b:a", "192k", "-af", "aresample=async=1">>
         [] audioInputs = 1 /\ ~sysAudio ->
              <<"-map", Stream(MicInputIndex(sysAudio), "a"),
                "-c:a", "aac", "-b:a", "192k", "-af", "aresample=async=1">>
         [] audioInputs = 2 ->
              <<"-filter_complex",
                "[" \o Stream(SysAudioInputIndex(sysAudio), "a") \o "][" \o
                Stream(MicInputIndex(sysAudio), "a") \o
                "]amix=inputs=2:duration=longest,aresample=async=1[aout]",
                "-map", "[aout]", "-c:a", "aac", "-b:a", "192k">>
         [] OTHER -> <<>>

\* const args of the disk architecture, lines 113-184
ArgsDisk(sysAudio, cfg, currentDevices) ==
    <<"-y">> \o
    (IF sysAudio
     THEN <<"-thread_queue_size", "4096", "-f", "s16le", "-ar", "48000",
            "-ac", "2", "-i", "pipe:0">>
     ELSE <<>>) \o
    <<"-thread_queue_size", "1024", "-f", "gdigrab", "-framerate", cfg.fps,
      "-draw_mouse", "1", "-i", "desktop">> \o
    (IF MicAdded(cfg, currentDevices)
     THEN <<"-thread_queue_size", "1024", "-f", "dshow",
            "-i", "audio=" \o MappedMic(cfg, currentDevices)>>
     ELSE <<>>) \o
    <<"-map", Stream(VideoInputIndex(sysAudio), "v")>> \o
    AudioArgsDisk(sysAudio, MicAdded(cfg, currentDevices)) \o
    <<"-vf", "fps=" \o cfg.fps, "-c:v", cfg.codec,
      "-preset", IF cfg.codec = "h264_nvenc" THEN "p5" ELSE "ultrafast",
      "-b:v", cfg.bitrate \o "M", "-f", "segment",
      "-segment_time", ToString(SegmentDuration), "-strftime", "1",
      "buffer_%Y%m%d%H%M%S.ts">>

\* The process pr as spawned with the arguments args, which were planned for
\* the device list currentDevices.
Planned(pr, args, currentDevices) ==
    [status |-> pr.status, stdin |-> pr.stdin, sig |-> pr.sig,
     args |-> args, devices |-> currentDevices]

\* fetchDevices().then((currentDevices) => { ... }), lines 710-852, with the
\* arguments it hands to spawn().
DevicesFetchedArgs(result, currentDevices) ==
    /\ pendingStarts > 0
    /\ pendingStarts' = pendingStarts - 1
    /\ useSystemAudio' = (config.systemAudioDevice # "None")
    /\ IF result = "throw"
       THEN /\ sent' = <<>>
            /\ UNCHANGED <<isRecording, recordProcess, videoBuffer, totalBytes,
                           config, disk, procs>>
       ELSE LET p == Cardinality(Spawned) + 1 IN
            /\ procs' = [procs EXCEPT ![p] =
                            Planned(NewProcess(result, useSystemAudio'),
                                    Args(useSystemAudio', config, currentDevices),
                                    currentDevices)]
            /\ recordProcess' = p
            /\ videoBuffer' = <<>>
            /\ totalBytes' = 0
            /\ isRecording' = StartedFlag
            /\ config' = [config EXCEPT !.autoRecord = TRUE]
            /\ disk' = SaveConfigToDisk(config')
            /\ sent' = IF mainWindowUsable
                       THEN <<"ipc:recording-state:true">> \o
                            (IF useSystemAudio' THEN <<"ipc:start-system-audio">> ELSE <<>>)
                       ELSE <<>>
    /\ last' = Ran("devicesFetchedArgs", result)
    /\ UNCHANGED <<isSavingReplay, timers, jobs, nextJob, files, artifacts,
                   rendererConfig, now>>

\* fetchDevices().then(...) of the disk architecture, lines 110-234, with the
\* arguments it hands to spawn().
DevicesFetchedDiskArgs(result, currentDevices) ==
    /\ pendingStarts > 0
    /\ pendingStarts' = pendingStarts - 1
    /\ useSystemAudio' = (config.systemAudioDevice # "None")
    /\ IF result = "throw"
       THEN /\ sent' = <<>>
            /\ UNCHANGED <<isRecording, recordProcess, config, disk, procs, timers>>
       ELSE LET p == Cardinality(Spawned) + 1 IN
            /\ procs' = [procs EXCEPT ![p] =
                            Planned(NewProcess(result, useSystemAudio'),
                                    ArgsDisk(useSystemAudio', config, currentDevices),
                                    currentDevices)]
            /\ recordProcess' = p
            /\ isRecording' = StartedFlag
            /\ config' = [config EXCEPT !.autoRecord = TRUE]
            /\ disk' = SaveConfigToDisk(config')
            /\ timers' = Arm(timers, [kind |-> "sweep", at |-> now + SweepInterval,
                                      armedFor |-> p])
            /\ sent' = (IF useSystemAudio' THEN <<"stdin.write:silence">> ELSE <<>>) \o
                       (IF mainWindowUsable
                        THEN <<"ipc:recording-state:true">> \o
                             (IF useSystemAudio' THEN <<"ipc:start-system-audio">> ELSE <<>>)
                        ELSE <<>>) \o <<"setInterval:sweep">>
    /\ last' = Ran("devicesFetchedDiskArgs", result)
    /\ UNCHANGED <<videoBuffer, totalBytes, isSavingReplay, jobs, nextJob, files,
                   artifacts, rendererConfig, now>>

\* ------------------------------------------------------------ audio relay

\* Faulty variant of RelayAccepts: only the handle and its channel are checked.
RelayAccepts_HandleOnly ==
    /\ recordProcess # NoProc
    /\ procs[recordProcess].stdin # "none"

\* system-audio-data, line 1138: recordProcess && isRecording &&
\* useSystemAudio && recordProcess.stdin && !stdin.destroyed && stdin.writable
\* (a channel that exists, is not destroyed and is writable is "open")
RelayAccepts ==
    /\ recordProcess # NoProc
    /\ isRecording
    /\ useSystemAudio
    /\ procs[recordProcess].stdin = "open"

\* ipcMain.on('system-audio-data', (_e, buffer) => ...), lines 1137-1146.
\* A failing write is caught (line 1141) or reaches the 'error' listener of
\* the channel (lines 823-827); neither changes any state.
SystemAudioData ==
    /\ sent' = IF RelayAccepts THEN <<"stdin.write">> ELSE <<>>
    /\ last' = Ran("systemAudioData", IF RelayAccepts THEN "written" ELSE "dropped")
    /\ UNCHANGED progVars
    /\ UNCHANGED <<rendererConfig, now>>

\* ------------------------------------------------------------------ Next

\* Every handler and event of the main process.
Next ==
    \/ StartRecording
    \/ \E result \in SpawnResults : DevicesFetched(result)
    \/ StopRecording
    \/ \E p \in Pids : ProcExit(p)
    \/ \E p \in Pids, size \in ChunkSizes : DataArrive(p, size)
    \/ TimerFire
    \/ \E d \in TickSteps : Tick(d)
    \/ \E mkdirOk \in BOOLEAN : SaveReplay(mkdirOk)
    \/ \E j \in jobs : DumpDrain(j)
    \/ \E j \in jobs : DumpError(j)
    \/ \E j \in jobs, result \in SpawnResults : DumpFinish(j, result)
    \/ \E j \in jobs : ExtractError(j)
    \/ \E j \in jobs, code \in {0, 1} : ExtractExit(j, code)
    \/ RendererLoad
    \/ \E key \in AudioKeys, value \in AudioChoices : SaveConfig(key, value)
    \/ SystemAudioData

Spec == Init /\ [][Next]_vars

\* The supervisor: start, stop and save-config requests, completion of the
\* device enumeration, process exits and the timers.
NextSupervisor ==
    \/ StartRecording
    \/ \E result \in SpawnResults : DevicesFetched(result)
    \/ StopRecording
    \/ \E p \in Pids : ProcExit(p)
    \/ TimerFire
    \/ now + KillDelay <= MaxFineTime /\ Tick(KillDelay)
    \/ RendererLoad
    \/ \E key \in AudioKeys, value \in AudioChoices : SaveConfig(key, value)

SpecSupervisor == Init /\ [][NextSupervisor]_vars

\* The extractor against a running supervisor and a filling buffer.
NextReplay ==
    \/ StartRecording
    \/ \E result \in SpawnResults : DevicesFetched(result)
    \/ StopRecording
    \/ \E p \in Pids : ProcExit(p)
    \/ \E p \in Pids, size \in ChunkSizes :
          Len(videoBuffer) < MaxSnapshot /\ DataArrive(p, size)
    \/ \E mkdirOk \in BOOLEAN : SaveReplay(mkdirOk)
    \/ \E j \in jobs : DumpDrain(j)
    \/ \E j \in jobs : DumpError(j)
    \/ \E j \in jobs, result \in SpawnResults : DumpFinish(j, result)
    \/ \E j \in jobs : ExtractError(j)
    \/ \E j \in jobs, code \in {0, 1} : ExtractExit(j, code)

SpecReplay == Init /\ [][NextReplay]_vars

\* The rolling buffer over time: chunks arrive while the clock advances.
NextBuffer ==
    \/ StartRecording
    \/ \E result \in SpawnResults : DevicesFetched(result)
    \/ \E p \in Pids : ProcExit(p)
    \/ \E p \in Pids, size \in ChunkSizes : DataArrive(p, size)
    \/ \E d \in TickSteps : now + d <= MaxFineTime /\ Tick(d)

SpecBuffer == Init /\ [][NextBuffer]_vars

\* The audio relay against start, stop, exit and configuration changes.
NextRelay ==
    \/ StartRecording
    \/ \E result \in SpawnResults : DevicesFetched(result)
    \/ StopRecording
    \/ \E p \in Pids : ProcExit(p)
    \/ RendererLoad
    \/ \E key \in AudioKeys, value \in AudioChoices : SaveConfig(key, value)
    \/ SystemAudioData

SpecRelay == Init /\ [][NextRelay]_vars

\* The segment architecture: segments are written, swept and concatenated
\* while time passes a segment at a time.
NextSegments ==
    \/ StartRecording
    \/ \E result \in SpawnResults : DevicesFetchedSegments(result)
    \/ \E p \in Pids : ProcExit(p)
    \/ \E p \in Pids : SegmentWritten(p)
    \/ CleanOldSegments
    \/ Tick(SegmentTime)
    \/ \E mkdirOk \in BOOLEAN : SaveReplaySegments(mkdirOk)
    \/ \E j \in jobs, code \in {0, 1} : ConcatExit(j, code)

SpecSegments == Init /\ [][NextSegments]_vars

\* The dump of an extraction against a buffer that keeps filling and
\* evicting.  A pending 'drain' event of a write stream is eventually
\* delivered.
NextDump ==
    \/ StartRecording
    \/ \E result \in SpawnResults : DevicesFetched(result)
    \/ \E p \in Pids, size \in ChunkSizes : DataArrive(p, size)
    \/ \E mkdirOk \in BOOLEAN : SaveReplay(mkdirOk)
    \/ \E j \in jobs : DumpDrain(j)
    \/ \E j \in jobs : DumpError(j)
    \/ \E j \in jobs, result \in SpawnResults : DumpFinish(j, result)
    \/ \E j \in jobs : ExtractError(j)
    \/ \E j \in jobs, code \in {0, 1} : ExtractExit(j, code)

SpecDump ==
    Init /\ [][NextDump]_vars /\ WF_vars(\E j \in jobs : DumpDrain(j))

\* The disk architecture: segments are written and swept while time passes
\* a segment at a time, and saved in two passes.
NextDiskSave ==
    \/ StartRecording
    \/ \E result \in SpawnResults : DevicesFetchedDisk(result)
    \/ \E p \in Pids, size \in OutputSizes : SegmentWrittenDisk(p, size)
    \/ CleanOldSegmentsDisk
    \/ now + SegmentDuration <= MaxDiskTime /\ Tick(SegmentDuration)
    \/ \E mkdirOk \in BOOLEAN, result \in SpawnResults : SaveReplayDisk(mkdirOk, result)
    \/ \E j \in jobs : ConcatError(j)
    \/ \E j \in jobs, code \in {0, 1}, result \in SpawnResults :
          ConcatExitDisk(j, code, result)
    \/ \E j \in jobs : TrimError(j)
    \/ \E j \in jobs, code \in {0, 1}, exists \in BOOLEAN, size \in OutputSizes :
          TrimExit(j, code, exists, size)

SpecDiskSave == InitDisk /\ [][NextDiskSave]_vars

\* The supervisor of the disk architecture: start and stop requests, process
\* exits, the kill timer and the sweep interval.
NextDiskSupervisor ==
    \/ StartRecording
    \/ \E result \in SpawnResults : DevicesFetchedDisk(result)
    \/ StopRecordingDisk
    \/ \E p \in Pids : ProcExit(p)
    \/ TimerFire
    \/ CleanOldSegmentsDisk
    \/ now + KillDelay <= MaxFineTime /\ Tick(KillDelay)

SpecDiskSupervisor == InitDisk /\ [][NextDiskSupervisor]_vars

\* The sweep of the disk architecture against a save whose concat process
\* runs while the segments age: every spawn succeeds and every segment has
\* been written to when the next handler runs.
NextDiskSweep ==
    \/ StartRecording
    \/ DevicesFetchedDisk("ok")
    \/ \E p \in Pids : SegmentWrittenDisk(p, MinBytes)
    \/ CleanOldSegmentsDisk
    \/ now + SegmentDuration <= MaxSweepTime /\ Tick(SegmentDuration)
    \/ SaveReplayDisk(TRUE, "ok")
    \/ \E j \in jobs, code \in {0, 1} : ConcatExitDisk(j, code, "ok")
    \/ \E j \in jobs : TrimExit(j, 0, TRUE, MinBytes)

SpecDiskSweep == InitDisk /\ [][NextDiskSweep]_vars

\* The argument planner: starts with every stored setting and every device
\* list, in both architectures.
NextPlanner ==
    \/ StartRecording
    \/ \E result \in SpawnResults, currentDevices \in DeviceLists :
          DevicesFetchedArgs(result, currentDevices)
    \/ \E result \in SpawnResults, currentDevices \in DeviceLists :
          DevicesFetchedDiskArgs(result, currentDevices)

SpecPlanner == InitPlanner /\ [][NextPlanner]_vars

\* ---------------------------------------------------------------- claims

\* C1: in every reachable state at most one encoder process spawned by
\* startRecording() is alive (spawned and not yet exited).
C1_AtMostOneEncoderAlive == Cardinality(Alive) <= 1

\* C2: startRecording() invoked while isRecording is true, and stopRecording()
\* invoked while isRecording is false, change no state (flags, buffer, timers,
\* processes, persisted configuration) and send, signal and arm nothing.
C2_NoOpInMatchingState ==
    [][ (\/ last'.op = "startRecording" /\ isRecording
         \/ last'.op = "stopRecording" /\ ~isRecording)
        => /\ UNCHANGED progVars
           /\ UNCHANGED rendererConfig
           /\ sent' = <<>> ]_vars

\* C2 witness: startRecording() has just been invoked while a pipeline was
\* running and recording was active.
C2_StartWhileRecording ==
    /\ last.op = "startRecording"
    /\ isRecording
    /\ Alive # {}

\* C3: at most one extraction is in flight at any time, and saveReplay()
\* invoked while isSavingReplay is true starts no job, writes no file or
\* artifact, and leaves the job in flight, its snapshot and its files as they are.
C3_SingleFlight ==
    [][ /\ Cardinality(InFlight') <= 1
        /\ (last'.op = "saveReplay" /\ isSavingReplay)
           => UNCHANGED <<jobs, files, artifacts, nextJob, isSavingReplay>> ]_vars

\* C3 witness: a request has just been dropped as a duplicate while an
\* extraction was in flight.
C3_DuplicateDropped ==
    /\ last = Ran("saveReplay", "duplicate")
    /\ Cardinality(InFlight) = 1

\* C4: every extraction that sets isSavingReplay clears it on every exit path;
\* stated as: whenever the lock is held an extraction is still running (one
\* whose remaining events clear the lock).
C4_LockHeldOnlyWhileExtracting == isSavingReplay => InFlight # {}

\* C5: a save-config that changes an audio-device selector while recording is
\* active stops the recording and arms the restart.
C5_AudioChangeRestarts ==
    last = Ran("saveConfig", "changedWhileRecording")
    => /\ ~isRecording
       /\ \E i \in DOMAIN timers : timers[i].kind = "restart"

\* C6: if spawning the encoder process fails, the recording flag is false after
\* start() completes and no recording-state=true has been sent.
C6_SpawnFailureNotRecording ==
    (last.op = "devicesFetched" /\ last.path \in {"error", "throw"} /\ Alive = {})
    => /\ ~isRecording
       /\ \A i \in DOMAIN sent : sent[i] # "ipc:recording-state:true"

\* C7: when stopRecording() is invoked while recording is active, on return
\* isRecording is false and recording-state=false has been sent, whether or not
\* the encoder process has exited.
C7_StopIsImmediate ==
    last = Ran("stopRecording", "accepted")
    => /\ ~isRecording
       /\ \E i \in DOMAIN sent : sent[i] = "ipc:recording-state:false"

\* C7 witness: stopRecording() has returned and the encoder process it
\* signalled is still alive.
C7_StoppedBeforeExit ==
    /\ last = Ran("stopRecording", "accepted")
    /\ recordProcess # NoProc
    /\ procs[recordProcess].status = "alive"

\* C8: triggering extraction right after start(), with nothing buffered and no
\* extraction in flight, produces no file and emits the "No video buffered
\* yet." notification.
C8_SaveAfterStartNotifies ==
    (/\ last.op = "saveReplay"
     /\ pendingStarts > 0 \/ isRecording
     /\ videoBuffer = <<>>
     /\ ~isSavingReplay)
    => /\ sent = <<"notify:No video buffered yet.">>
       /\ jobs = {}

\* C9: while recording is active and no extraction is in flight, saveReplay()
\* against an empty buffer, or one of fewer than 1024 bytes, produces no
\* artifact, leaves the lock clear, starts no extraction and emits an
\* insufficient-buffer notification.
C9_InsufficientBuffer ==
    [][ (/\ last'.op = "saveReplay"
         /\ isRecording
         /\ ~isSavingReplay
         /\ Len(videoBuffer) = 0 \/ totalBytes < MinBytes)
        => /\ ~isSavingReplay'
           /\ UNCHANGED <<jobs, files, artifacts, nextJob>>
           /\ sent' \in {<<"notify:No video buffered yet.">>,
                         <<"notify:Not enough video buffered yet.">>} ]_vars

\* C9 witness: a request has just been refused because the buffer, though not
\* empty, holds fewer than 1024 bytes.
C9_RefusedAsTooSmall ==
    /\ last = Ran("saveReplay", "small")
    /\ videoBuffer # <<>>
    /\ sent = <<"notify:Not enough video buffered yet.">>

\* No retained chunk is older than now - (W + M).
NoStaleChunk ==
    \A i \in DOMAIN videoBuffer : videoBuffer[i].time >= Cutoff(config, now)

\* C10 as stated: right after every append-and-evict step no retained chunk is
\* older than now - (W + M), except when fewer than 2 chunks are retained.
C10_FreshUnlessFewerThanTwo ==
    (last.op = "data" /\ ~(Len(videoBuffer) < 2)) => NoStaleChunk

\* C10 as amended: right after every append-and-evict step no retained chunk is
\* older than now - (W + M), except when 2 or fewer chunks are retained.
C10_FreshUnlessAtMostTwo ==
    (last.op = "data" /\ ~(Len(videoBuffer) <= 2)) => NoStaleChunk

\* C10 witness: an append has just evicted by age (every retained chunk is
\* small, so the byte cap was not exceeded) and more than 2 chunks remain.
C10_EvictedByAge ==
    /\ last = Ran("data", "evicted")
    /\ Len(videoBuffer) > 2
    /\ \A i \in DOMAIN videoBuffer : videoBuffer[i].len < MinBytes

\* The time covered by the retained chunks: newest timestamp minus oldest.
Span(buf) == IF buf = <<>> THEN 0 ELSE buf[Len(buf)].time - buf[1].time

\* Chunks arrive continuously: no two consecutive chunks of buf, and the last
\* one and time t, are further apart than the margin.
Continuous(buf, t) ==
    /\ \A i \in 1..(Len(buf) - 1) : buf[i + 1].time - buf[i].time <= Margin
    /\ buf # <<>> => t - buf[Len(buf)].time <= Margin

\* C11: once the retained chunks span at least the configured window W and
\* chunks keep arriving continuously, an append-and-evict step never leaves a
\* retained span shorter than W, whether it evicts by age or by the byte cap.
C11_SpanCoversWindow ==
    [][ (/\ last'.op = "data"
         /\ Continuous(videoBuffer, now)
         /\ Span(videoBuffer) >= BufferSecs(config))
        => Span(videoBuffer') >= BufferSecs(config) ]_vars

\* C12: stopRecording() invoked while an extraction is in flight leaves that
\* extraction, its files and the lock as they are and returns with isRecording
\* false; an extraction keeps the snapshot taken when it was triggered through
\* every later step, and when its trim process exits with code 0 the artifact
\* is written and the lock cleared.
C12_StopLeavesExtraction ==
    [][ /\ (last'.op = "stopRecording" /\ isRecording /\ InFlight # {})
           => /\ ~isRecording'
              /\ UNCHANGED <<jobs, files, artifacts, isSavingReplay>>
        /\ \A j \in jobs, k \in jobs' : k.id = j.id => k.snapshot = j.snapshot
        /\ (last'.op = "extractExit" /\ last'.path = "0")
           => /\ ~isSavingReplay'
              /\ \E j \in jobs, a \in artifacts' \ artifacts : a.job = j.id ]_vars

\* C12 witness: an extraction has just completed with its artifact after
\* stopRecording() had been accepted while it was in flight (autoRecord is
\* false only from an accepted stop until the next spawn, and the extraction
\* was accepted while recording was active).
C12_CompletedAfterStop ==
    /\ last = Ran("extractExit", "0")
    /\ ~isRecording
    /\ ~config.autoRecord
    /\ ~isSavingReplay
    /\ artifacts # {}

\* C13: when an encoder process exits without stopRecording() having
\* signalled it, the exit handler resets isRecording and useSystemAudio, sends
\* recording-state=false and stop-system-audio, and starts nothing: it spawns no
\* process, starts no device enumeration and arms no timer.  A pipeline is only
\* ever spawned by the callback of a device enumeration, and an enumeration is
\* only started by startRecording() (called by a request or by the restart
\* callback of save-config).
C13_UnexpectedExitIsAStop ==
    [][ /\ last' = Ran("exit", "none")
           => /\ ~isRecording'
              /\ ~useSystemAudio'
              /\ sent' = <<"ipc:recording-state:false", "ipc:stop-system-audio">>
              /\ Spawned' = Spawned
              /\ UNCHANGED <<pendingStarts, timers, recordProcess>>
        /\ Spawned' # Spawned => last'.op = "devicesFetched" /\ pendingStarts > 0
        /\ pendingStarts' > pendingStarts
           => last'.op = "startRecording" \/ last' = Ran("timer", "restart") ]_vars

\* C13 witness: the process that was recording has just exited on its own,
\* with no start pending.
C13_ExitedOnItsOwn ==
    /\ last = Ran("exit", "none")
    /\ recordProcess # NoProc
    /\ procs[recordProcess].status = "exited"
    /\ procs[recordProcess].sig = "none"
    /\ config.autoRecord
    /\ pendingStarts = 0

\* C14: every process stopRecording() has signalled and that has not exited is
\* either force-killed or still has the kill timer armed by that stop pending,
\* so that it terminates at the latest when the timer fires.
C14_StoppedProcessGetsKilled ==
    \A p \in Pids :
        (procs[p].status = "alive" /\ procs[p].sig = "SIGINT")
        => \E i \in DOMAIN timers :
              timers[i].kind = "kill" /\ timers[i].armedFor = p

\* The notifications that report the failure of an extraction.
FailureNotices ==
    {"notify:Failed to save replay: error", "notify:Failed to save replay. Code"}

\* C15: every step at which an extraction that took the lock ends (its last
\* event has run, or saveReplay() is left right after taking the lock) shows a
\* notification: the success notification only together with a new artifact,
\* a failure notification otherwise.
C15_NoSilentEnd ==
    [][ (\/ Cardinality(InFlight') < Cardinality(InFlight)
         \/ nextJob' > nextJob /\ InFlight' = InFlight)
        => \/ /\ sent' = <<"notify:Replay saved!">>
              /\ artifacts' # artifacts
           \/ /\ Len(sent') = 1
              /\ sent'[1] \in FailureNotices
              /\ artifacts' = artifacts ]_vars

StopRank(e) ==
    CASE e = "ipc:stop-system-audio" -> 1
      [] e = "stdin.end"             -> 2
      [] e = "kill:SIGINT"           -> 3
      [] e = "setTimeout:kill"       -> 4
      [] OTHER                       -> 5

\* C19: every stopRecording() that passes its guard performs its steps in the
\* order relay-stop signal, close of the input channel, graceful signal, arming
\* of the kill timer, each at most once; with a process handle present the
\* relay-stop signal, the graceful signal and the timer are all there, and so is
\* the close when the process has an input channel.
C19_StopOrder ==
    last = Ran("stopRecording", "accepted")
    => /\ \A i, j \in DOMAIN sent : i < j => StopRank(sent[i]) < StopRank(sent[j])
       /\ recordProcess # NoProc
          => /\ \A e \in {"ipc:stop-system-audio", "kill:SIGINT", "setTimeout:kill"} :
                   \E i \in DOMAIN sent : sent[i] = e
             /\ procs[recordProcess].stdin # "none"
                => \E i \in DOMAIN sent : sent[i] = "stdin.end"

\* C19 witness: a stop of a pipeline with an input channel has just performed
\* all four steps while an extraction was in flight.
C19_StoppedDuringExtraction ==
    /\ last = Ran("stopRecording", "accepted")
    /\ InFlight # {}
    /\ Len(sent) = 5
    /\ sent[2] = "stdin.end"

\* The sum of the lengths of the chunks of buf.
RECURSIVE SumLen(_)
SumLen(buf) == IF buf = <<>> THEN 0 ELSE buf[1].len + SumLen(Tail(buf))

\* The chunks of buf from position k + 1 on.
DropHead(buf, k) == SubSeq(buf, k + 1, Len(buf))

\* C20: every append is followed by the eviction, which removes some number k
\* of chunks from the head of the buffer with the new chunk appended: each
\* chunk is removed only when more than 2 chunks were left and the head at that
\* moment was older than now - (W + 15 s) or the byte total exceeded the cap; at
\* least 2 chunks remain when there were 2; and on exit exactly 2 chunks remain
\* or the head is within the window and the total within the cap.
C20_EvictionFromHeadOnly ==
    [][ last'.op = "data"
        => \E chunk \in [time : {now}, len : ChunkSizes, src : Pids] :
              LET pushed == Append(videoBuffer, chunk)
                  total  == totalBytes + chunk.len
                  cutoff == now - (BufferSecs(config) + Margin)
              IN \E k \in 0..Len(pushed) :
                    /\ videoBuffer' = DropHead(pushed, k)
                    /\ totalBytes' = total - SumLen(SubSeq(pushed, 1, k))
                    /\ \A m \in 1..k :
                          /\ Len(pushed) - (m - 1) > 2
                          /\ \/ pushed[m].time < cutoff
                             \/ total - SumLen(SubSeq(pushed, 1, m - 1)) > HardLimit
                    /\ Len(pushed) >= 2 => Len(videoBuffer') >= 2
                    /\ \/ Len(videoBuffer') = 2
                       \/ /\ videoBuffer'[1].time >= cutoff
                          /\ totalBytes' <= HardLimit ]_vars

\* C20 witness: an append has just evicted for the byte cap alone (nothing can
\* be older than the cutoff yet) and stopped at 2 chunks.
C20_EvictedByCap ==
    /\ last = Ran("data", "evicted")
    /\ Len(videoBuffer) = 2
    /\ now < Margin
    /\ totalBytes = HardLimit

\* C17: the concat list of a save names only segment files that lie within
\* the configured buffer window, that is, files last written no earlier than
\* now - W; older segments still in the buffer directory are left out.
C17_OnlyWindowSegments ==
    last = Ran("saveReplaySegments", "accepted")
    => \A j \in jobs :
          j.id = nextJob - 1
          => \A i \in DOMAIN j.snapshot : j.snapshot[i].mtime >= now - config.bufferTime

\* C21 as stated: in every reachable state the memory buffer holds at least 2
\* chunks whenever it holds any.
C21_AtLeastTwoWhenAny == Len(videoBuffer) # 1

\* C21: the memory buffer holds exactly 1 chunk only between the first and the
\* second append after a start; an append onto a non-empty buffer leaves at
\* least 2 chunks, and a buffer of at least 2 chunks keeps at least 2 until the
\* next start empties it.
C21_EvictionKeepsTwo ==
    [][ /\ (last'.op = "data" /\ Len(videoBuffer) >= 1) => Len(videoBuffer') >= 2
        /\ (Len(videoBuffer) >= 2 /\ last'.op # "devicesFetched")
              => Len(videoBuffer') >= 2
        /\ (Len(videoBuffer') = 1 /\ videoBuffer' # videoBuffer)
              => (last'.op = "data" /\ videoBuffer = <<>>) ]_vars

\* C21 witness: the eviction has just stopped at 2 chunks although the head is
\* older than the cutoff.
C21_StoppedAtTwo ==
    /\ last = Ran("data", "evicted")
    /\ Len(videoBuffer) = 2
    /\ videoBuffer[1].time < Cutoff(config, now)

\* The payloads of the chunks of buf, in buffer order.
Payloads(buf) == [k \in DOMAIN buf |-> [len |-> buf[k].len, src |-> buf[k].src]]

\* C22: what an extraction writes to its dump is, at every moment, a prefix
\* of the payloads the buffer held when saveReplay() was accepted, in buffer
\* order, and when the stream has finished it is all of them, whatever was
\* appended to or evicted from the buffer in between.  A 'data' event is
\* handled whenever its process is alive, with or without an extraction in
\* flight; it appends and evicts as always and touches no extraction.
C22_DumpIsTriggerSnapshot ==
    /\ [][ /\ last' = Ran("saveReplay", "accepted")
              => /\ jobs' # jobs
                 /\ \A k \in jobs' \ jobs :
                       /\ k.snapshot = Payloads(videoBuffer)
                       /\ k.written = SubSeq(k.snapshot, 1, k.i)
           /\ \A j \in jobs, k \in jobs' :
                 k.id = j.id => /\ k.snapshot = j.snapshot
                                /\ k.i >= j.i
                                /\ k.written = SubSeq(j.snapshot, 1, k.i)
           /\ last'.op = "finish"
              => \A j \in jobs \ jobs' : j.written = j.snapshot
           /\ last'.op = "data"
              => /\ jobs' = jobs
                 /\ isSavingReplay' = isSavingReplay
                 /\ \E chunk \in [time : {now}, len : ChunkSizes, src : Pids] :
                       videoBuffer' = Evict(Append(videoBuffer, chunk),
                                            totalBytes + chunk.len,
                                            Cutoff(config, now)).buf ]_vars
    /\ [](\A p \in Alive, size \in ChunkSizes :
             Len(videoBuffer) < MaxChunks => ENABLED DataArrive(p, size))

\* C22 witness: a dump of 3 chunks has just finished with exactly the 3
\* payloads of its snapshot written, while the buffer of the only process
\* ever spawned has since been cut to 2 chunks by the eviction.
C22_FinishedAfterEviction ==
    /\ last.op = "finish"
    /\ Cardinality(Spawned) = 1
    /\ Len(videoBuffer) = 2
    /\ \E j \in jobs : /\ Len(j.snapshot) = 3
                       /\ j.written = j.snapshot
                       /\ j.phase # "dead"

\* The extraction with identifier id is waiting for a 'drain' event.
Draining(id) == \E j \in jobs : j.id = id /\ j.phase = "draining"

\* C23: the dump writer writes the chunks of its snapshot once each and in
\* order (what is written is always the first i chunks); chunks are written
\* only by saveReplay() itself and by the 'drain' callback, so that after a
\* write reported a full buffer nothing is written until 'drain' fires; the
\* stream is ended once, when and only when every chunk has been written, and
\* nothing is written afterwards.  With every pending 'drain' event eventually
\* delivered, no dump waits for 'drain' forever.
C23_DumpWriter ==
    /\ [](\A j \in jobs :
             j.phase # "concat"
             => /\ j.written = SubSeq(j.snapshot, 1, j.i)
                /\ j.ends <= 1
                /\ j.phase = "draining" => j.ends = 0 /\ j.i < Len(j.snapshot)
                /\ j.phase \in {"ending", "trimming", "spawnFailed"} => j.ends = 1
                /\ j.ends = 1 => j.written = j.snapshot)
    /\ [][ \A j \in jobs, k \in jobs' :
              k.id = j.id
              => /\ k.written # j.written
                    => /\ last'.op = "drain"
                       /\ j.phase = "draining"
                       /\ Len(k.written) > Len(j.written)
                 /\ k.ends >= j.ends
                 /\ j.ends = 1 => k.written = j.written ]_vars
    /\ \A id \in 1..MaxJobs : Draining(id) ~> ~Draining(id)

\* C23 witness: a 'drain' callback has just written the last chunk of a
\* snapshot of several chunks and ended the stream.
C23_EndedAfterDrain ==
    /\ last.op = "drain"
    /\ \E j \in jobs : /\ j.phase = "ending"
                       /\ j.ends = 1
                       /\ Len(j.snapshot) >= 2
                       /\ j.written = j.snapshot

C25_SuccessOnlyForCheckedArtifact ==
    [][ last' = Ran("extractExit", "0")
        => /\ \A a \in artifacts' \ artifacts : a.size >= MinBytes
           /\ (\E k \in DOMAIN sent' : sent'[k] = "notify:Replay saved!")
              => \E a \in artifacts' \ artifacts : a.size >= MinBytes ]_vars

\* The non-empty segment files of the buffer directory.
NonEmptySegments == {f \in files : f.kind = "segment" /\ f.size > 0}

\* The least c with c * SEGMENT_DURATION >= w.
SegmentsCovering(w) ==
    CHOOSE c \in 0..w : c * SegmentDuration >= w /\ (c - 1) * SegmentDuration < w

\* C26: an accepted disk save writes a concat list that names exactly the
\* newest min(n, ceil(W / SEGMENT_DURATION) + 2) of the n non-empty segment
\* files, oldest first, and the concat process is given that selection; with
\* at least that many non-empty segments the selection, even without its
\* newest (unfinished) segment, spans at least W seconds.
C26_SelectsNewestSegments ==
    [][ last' = Ran("saveReplayDisk", "accepted")
        => LET n      == Cardinality(NonEmptySegments)
               needed == SegmentsCovering(config.bufferTime) + 2
               k      == IF n < needed THEN n ELSE needed
           IN \E list \in files' :
                 /\ list.kind = "list"
                 /\ \A other \in files' : other.kind = "list" => other = list
                 /\ Len(list.lines) = k
                 /\ \A f \in NonEmptySegments :
                       (\E i \in DOMAIN list.lines : list.lines[i] = f)
                       <=> Cardinality({g \in NonEmptySegments : g.mtime > f.mtime}) < k
                 /\ \A i \in DOMAIN list.lines :
                       /\ list.lines[i] \in NonEmptySegments
                       /\ \A m \in DOMAIN list.lines :
                             i < m => list.lines[i].mtime < list.lines[m].mtime
                 /\ n >= needed => (k - 1) * SegmentDuration >= config.bufferTime
                 /\ \A j \in jobs' \ jobs : j.snapshot = list.lines ]_vars

\* C26 witness: a save has just been accepted with 4 non-empty segments and an
\* empty one in the buffer directory and a window of 5 s; the list names 3.
C26_SelectedThreeOfFive ==
    /\ last = Ran("saveReplayDisk", "accepted")
    /\ config.bufferTime = 5
    /\ Cardinality(NonEmptySegments) = 4
    /\ \E f \in files : f.kind = "segment" /\ f.size = 0
    /\ \E list \in files : list.kind = "list" /\ Len(list.lines) = 3
    /\ jobs # {}

\* C27: when a disk extraction has finished, with or without success, neither
\* the concat list nor the temporary concatenated file is in the buffer
\* directory.
C27_NoTemporariesLeft ==
    [][ (isSavingReplay /\ ~isSavingReplay')
        => \A f \in files' : f.kind \notin {"list", "temp"} ]_vars

\* The sweep intervals that are armed.
SweepTimers == {i \in DOMAIN timers : timers[i].kind = "sweep"}

\* C28: while the pipeline is running exactly one sweep interval is armed, and
\* when it is not running (after a stop or an exit of the encoder) none is.
C28_SweepTimerIffRunning ==
    Cardinality(SweepTimers) = IF isRecording THEN 1 ELSE 0

\* C29: when the callback of a start has spawned the encoder with the system
\* audio source enabled, it writes the burst of silence to the input channel
\* and sends start-system-audio after it; start-system-audio is sent only with
\* the source enabled.
C29_SilenceBeforeRelayStart ==
    [][ (last'.op \in {"devicesFetched", "devicesFetchedDisk"} /\ last'.path # "throw")
        => /\ useSystemAudio'
              => \E i, k \in DOMAIN sent' :
                    /\ i < k
                    /\ sent'[i] = "stdin.write:silence"
                    /\ sent'[k] = "ipc:start-system-audio"
           /\ ~useSystemAudio'
              => \A k \in DOMAIN sent' : sent'[k] # "ipc:start-system-audio" ]_vars

\* C30: every 'exit' handler leaves isRecording and useSystemAudio false, and
\* one that runs with both already false (after stopRecording(), or after
\* another 'exit') changes nothing of the supervisor's state: the flags, the
\* process handle, the configuration in memory and on disk, the timers, the
\* pending starts and the buffer are as stopRecording() or the earlier handler
\* left them.
C30_ExitIdempotentWithStop ==
    [][ last'.op = "exit"
        => /\ ~isRecording'
           /\ ~useSystemAudio'
           /\ (~isRecording /\ ~useSystemAudio)
              => UNCHANGED <<isRecording, useSystemAudio, recordProcess, config,
                             disk, timers, pendingStarts, videoBuffer,
                             totalBytes, isSavingReplay>> ]_vars

\* C30 witness: the process signalled by stopRecording() has just exited,
\* before the kill timer of that stop has run.
C30_ExitedAfterStop ==
    /\ last = Ran("exit", "SIGINT")
    /\ ~isRecording
    /\ ~useSystemAudio
    /\ ~config.autoRecord
    /\ recordProcess # NoProc
    /\ timers # <<>>
    /\ Head(timers).kind = "kill"

\* The tokens of args that follow a token opt, in order.
Following(args, opt) ==
    LET at == {i \in 1..(Len(args) - 1) : args[i] = opt}
    IN [k \in 1..Cardinality(at) |->
          args[(CHOOSE i \in at : Cardinality({m \in at : m < i}) = k - 1) + 1]]

\* The processes spawned with planned arguments.
PlannedProcs == {p \in Spawned : "args" \in DOMAIN procs[p]}

\* The microphone is present: the configured device, or for 'Default' the
\* first device listed, is among the devices listed.
MicPresent(cfg, devices) ==
    IF cfg.audioDevice = "Default"
    THEN devices # <<>>
    ELSE \E i \in DOMAIN devices : devices[i] = cfg.audioDevice

\* The number of audio sources of a start.
Sources(cfg, devices) ==
    (IF cfg.systemAudioDevice # "None" THEN 1 ELSE 0) +
    (IF MicPresent(cfg, devices) THEN 1 ELSE 0)

StreamIndexes == {"-1", "0", "1", "2"}
AmixFilters ==
    {"[" \o a \o ":a][" \o b \o ":a]amix=inputs=2:duration=longest" \o tail :
        a \in StreamIndexes, b \in StreamIndexes,
        tail \in {"[aout]", ",aresample=async=1[aout]"}}
AudioTokens == {"-c:a", "-b:a", "-filter_complex", "-af", "aac"}

\* C31: for system audio enabled or disabled and the microphone present or
\* absent, the arguments map the video input first; with two audio sources
\* there is one amix filter whose output [aout] is the only audio mapped;
\* with one source there is one direct audio map and no filter_complex; with
\* none there is no audio map, codec or filter argument.
C31_AudioMappedBySourceCount ==
    \A p \in PlannedProcs :
       LET args    == procs[p].args
           maps    == Following(args, "-map")
           filters == Following(args, "-filter_complex")
           sources == Sources(config, procs[p].devices)
       IN /\ Len(maps) >= 1
          /\ maps[1] \in {i \o ":v" : i \in StreamIndexes}
          /\ sources = 2 => /\ Len(filters) = 1
                            /\ filters[1] \in AmixFilters
                            /\ maps = <<maps[1], "[aout]">>
          /\ sources = 1 => /\ filters = <<>>
                            /\ Len(maps) = 2
                            /\ maps[2] \in {i \o ":a" : i \in StreamIndexes}
          /\ sources = 0 => /\ maps = <<maps[1]>>
                            /\ \A i \in DOMAIN args : args[i] \notin AudioTokens

\* C31 witness: a process has been spawned with no audio source (system audio
\* disabled, configured microphone not listed); its arguments have one map.
C31_PlannedWithoutAudio ==
    \E p \in PlannedProcs :
       /\ Sources(config, procs[p].devices) = 0
       /\ procs[p].devices # <<>>
       /\ Len(Following(procs[p].args, "-map")) = 1

\* The 0-based position of the input named by one of names among the -i
\* arguments of args; -1 if there is none.
InputPosition(args, names) ==
    LET inputs == Following(args, "-i")
    IN IF \E k \in DOMAIN inputs : inputs[k] \in names
       THEN (CHOOSE k \in DOMAIN inputs : inputs[k] \in names) - 1
       ELSE -1

VideoInputs == {"ddagrab=framerate=60:draw_mouse=1", "desktop"}
SysAudioInputs == {"pipe:0"}
MicInputs == {"audio=Mic A", "audio=Mic B"}

\* C40: every input index in a -map or amix argument is the position of that
\* input among the -i arguments: the video map names the screen capture, a
\* direct audio map names the one audio input that was added, the amix filter
\* names the system audio input and the microphone input in that order, and
\* nothing names an input that was not added.
C40_IndexesArePositions ==
    \A p \in PlannedProcs :
       LET args    == procs[p].args
           maps    == Following(args, "-map")
           filters == Following(args, "-filter_complex")
           video   == InputPosition(args, VideoInputs)
           sys     == InputPosition(args, SysAudioInputs)
           mic     == InputPosition(args, MicInputs)
       IN /\ video >= 0
          /\ maps[1] = ToString(video) \o ":v"
          /\ \A k \in 2..Len(maps) :
                \/ maps[k] = "[aout]" /\ filters # <<>>
                \/ /\ (sys >= 0) # (mic >= 0)
                   /\ maps[k] = ToString(IF sys >= 0 THEN sys ELSE mic) \o ":a"
          /\ \A k \in DOMAIN filters :
                /\ sys >= 0
                /\ mic >= 0
                /\ filters[k] \in
                      {"[" \o ToString(sys) \o ":a][" \o ToString(mic) \o
                       ":a]amix=inputs=2:duration=longest" \o tail :
                          tail \in {"[aout]", ",aresample=async=1[aout]"}}

\* C40 witness: a process has been spawned with the system audio input, the
\* screen capture and a microphone, in that order, and an amix filter.
C40_PlannedWithThreeInputs ==
    \E p \in PlannedProcs :
       /\ Len(Following(procs[p].args, "-i")) = 3
       /\ InputPosition(procs[p].args, MicInputs) = 2
       /\ Following(procs[p].args, "-filter_complex") # <<>>

\* C32: the kill timer armed by a stopRecording() affects only the process
\* that stopRecording() signalled: its callback sends SIGKILL to no other
\* process and clears the handle of no other process.
C32_KillTimerOwnProcessOnly ==
    [][ last' = Ran("timer", "kill")
        => LET target == Head(timers).armedFor
           IN /\ \A p \in Pids : procs'[p] # procs[p] => p = target
              /\ recordProcess' # recordProcess => recordProcess = target ]_vars

\* C33: while a newer process is alive, the exit of an older process that
\* stopRecording() had signalled resets neither isRecording nor
\* useSystemAudio and sends nothing.
C33_LateExitLeavesNewPipeline ==
    [][ \A p \in Pids :
           (/\ last'.op = "exit"
            /\ procs[p].status = "alive"
            /\ procs'[p].status = "exited"
            /\ procs[p].sig # "none"
            /\ recordProcess > p
            /\ procs[recordProcess].status = "alive")
           => /\ UNCHANGED <<isRecording, useSystemAudio>>
              /\ sent' = <<>> ]_vars

\* C34: when stopRecording() has returned, the completion of a device
\* enumeration that was pending during the call spawns no process and does
\* not set isRecording.
C34_PendingStartDiesWithStop ==
    [][ (last.op = "stopRecording" /\ last'.op = "devicesFetched")
        => /\ ~isRecording'
           /\ Spawned' = Spawned ]_vars

\* C35: an accepted startRecording() removes no dump file of an extraction
\* that is still in flight (its lock is held).
C35_PurgeSparesExtraction ==
    [][ (last'.op = "startRecording" /\ isSavingReplay)
        => \A j \in InFlight :
              DumpFile(j.id) \in files => DumpFile(j.id) \in files' ]_vars

\* Since the oldest segment of the buffer directory, a segment has been
\* produced every SEGMENT_DURATION seconds, up to now.
RegularPace ==
    \A t \in 0..now :
       (t % SegmentDuration = 0 /\ \E f \in Segments : f.mtime <= t)
       => \E f \in Segments : f.mtime = t

\* C36: a run of cleanOldSegments() deletes no segment that is listed in the
\* concatenation list of an extraction whose concat process still runs,
\* segments being produced at the regular pace.
C36_SweepSparesListedSegments ==
    [][ (last'.op = "cleanOldSegmentsDisk" /\ RegularPace)
        => \A j \in jobs :
              j.phase = "pass1"
              => \A k \in 1..Len(j.snapshot) :
                    j.snapshot[k] \in files => j.snapshot[k] \in files' ]_vars

\* C37: videoBuffer holds no chunk of a process that stopRecording() had
\* signalled before a later process was spawned (and the buffer reset).
C37_NoChunkOfStoppedProcess ==
    \A k \in DOMAIN videoBuffer :
       LET p == videoBuffer[k].src
       IN p < Cardinality(Spawned) => procs[p].sig = "none"

\* C38: totalBytes is the sum of the lengths of the chunks of videoBuffer,
\* and 0 when the buffer is empty.
C38_TotalIsSumOfChunks ==
    /\ totalBytes = SumLen(videoBuffer)
    /\ videoBuffer = <<>> => totalBytes = 0

\* A chunk of the second process has been appended and a chunk evicted.
C38_EvictedAfterRestart ==
    /\ last = Ran("data", "evicted")
    /\ Cardinality(Spawned) = 2
    /\ videoBuffer # <<>>
    /\ videoBuffer[Len(videoBuffer)].src = 2
    /\ totalBytes > 0

\* C39: a save-config call leaves autoRecord, in memory and in config.json,
\* as the last start or stop has set it.
C39_SaveConfigKeepsAutoRecord ==
    [][ last'.op = "saveConfig"
        => /\ config'.autoRecord = config.autoRecord
           /\ disk'.autoRecord = config.autoRecord ]_vars

====
